---- MODULE Spec2Model ----
(***************************************************************************)
(* Model of the paper-trading execution engine                             *)
(* (stockscores/paper/services/execution.py) and of the rows it reads and  *)
(* writes (stockscores/paper/models.py).                                   *)
(*                                                                         *)
(* Decimal values are exact rationals [n, d] with d > 0; Python's None is  *)
(* the value with d = 0.  Arithmetic in memory is exact; a row write keeps  *)
(* the decimal_places of each DecimalField, rounding to the nearest value   *)
(* of the column (ties to even).                                            *)
(* Datetimes are seconds on the local clock: day = t \div 86400.           *)
(***************************************************************************)
EXTENDS Integers, Sequences, FiniteSets, TLC

VARIABLES
    orders,      \* PaperOrder rows, by id
    portfolios,  \* PaperPortfolio rows, by id
    positions,   \* PaperPosition rows, by <<portfolio, symbol>>
    trades,      \* PaperTrade rows, in creation order
    settings,    \* the engine's configuration (ExecutionEngine.__init__)
    now,         \* the clock of the current engine run (_current_time)
    runs,        \* engine runs started so far
    pfqueue,     \* portfolios ExecutionEngine.run has still to process
    queue,       \* in-memory order objects process_portfolio has still to process
    market,      \* the quote source: the quotes it may answer, the scheduler's periods
    last,        \* what the latest _process_order_instance call did
    algo_orders, \* in-memory order objects run_algo_slices has still to process
    runner,      \* StrategyRunner: the Strategy and StrategyRunLog rows, the run's loop
    cache        \* IndicatorService.cache of the engine: the history fetched, by symbol

vars == <<orders, portfolios, positions, trades, settings, now, runs, pfqueue, queue,
          market, last, algo_orders, runner, cache>>

-----------------------------------------------------------------------------
(* Decimal arithmetic *)

Abs(x) == IF x < 0 THEN -x ELSE x

RECURSIVE Gcd(_, _)
Gcd(a, b) == IF b = 0 THEN a ELSE Gcd(b, a % b)

Reduce(n, d, g) == [n |-> n \div g, d |-> d \div g]
Norm(n, d) == Reduce(n, d, Gcd(Abs(n), d))

Q(n) == [n |-> n, d |-> 1]
None == [n |-> 0, d |-> 0]
Zero == [n |-> 0, d |-> 1]

IsNone(x) == x.d = 0
\* Python truthiness of an Optional[Decimal]: None and 0 are false
Truthy(x) == x.d # 0 /\ x.n # 0

\* sums, products and comparisons cancel common factors before multiplying
Scale(a, b) == IF a.d = 0 \/ b.d = 0 THEN 1 ELSE Gcd(a.d, b.d)
AddBy(a, b, g) == Norm(a.n * (b.d \div g) + b.n * (a.d \div g), (a.d \div g) * b.d)
Add(a, b) == AddBy(a, b, Scale(a, b))
Sub(a, b) == Add(a, [n |-> -b.n, d |-> b.d])
Times(x, y) == [n |-> x.n * y.n, d |-> x.d * y.d]
Mul(a, b) == Times(Norm(a.n, b.d), Norm(b.n, a.d))
Div(a, b) == Mul(a, IF b.n > 0 THEN [n |-> b.d, d |-> b.n] ELSE [n |-> -b.d, d |-> -b.n])
SignBy(a, b, g) == a.n * (b.d \div g) - b.n * (a.d \div g)
Sign(a, b) == SignBy(a, b, Scale(a, b))
Lt(a, b) == Sign(a, b) < 0
Le(a, b) == Sign(a, b) <= 0
Gt(a, b) == Sign(a, b) > 0
Ge(a, b) == Sign(a, b) >= 0
Min(a, b) == IF Le(a, b) THEN a ELSE b
Max(a, b) == IF Ge(a, b) THEN a ELSE b
\* int(x): truncation toward zero
Trunc(x) == IF x.n >= 0 THEN x.n \div x.d ELSE -((-x.n) \div x.d)
MaxInt(a, b) == IF a >= b THEN a ELSE b

\* DecimalField(decimal_places=places): the value a row keeps of x
Pow10(places) == CASE places = 2 -> 100 [] places = 4 -> 10000 [] places = 6 -> 1000000

\* long division: the quotient q and the rest r of (q + r/d) * 10^places
RECURSIVE Shift(_, _, _, _)
Shift(q, r, d, places) ==
    IF places = 0 THEN [q |-> q, r |-> r]
    ELSE Shift(q * 10 + (r * 10) \div d, (r * 10) % d, d, places - 1)

\* a half goes to the even neighbour where Django formats the number, and away
\* from zero where the database rounds it
Quantize(x, places) ==
    LET Nearest(floor, rest) ==
            IF 2 * rest < x.d THEN floor
            ELSE IF 2 * rest > x.d THEN floor + 1
            ELSE IF settings.rounding = "even"
            THEN IF floor % 2 = 0 THEN floor ELSE floor + 1
            ELSE IF x.n >= 0 THEN floor + 1 ELSE floor
        Rounded(s) == Norm(Nearest(s.q, s.r), Pow10(places))
    IN  IF x.d = 0 \/ Pow10(places) % x.d = 0 THEN x
        ELSE Rounded(Shift(x.n \div x.d, x.n % x.d, x.d, places))

-----------------------------------------------------------------------------
(* Clock *)

DaySeconds == 24 * 60 * 60
NoTime == -1
\* a payload timestamp that fromisoformat does not parse
Unparsable == -2
\* MARKET_OPEN = time(9, 30), MARKET_CLOSE = time(16, 0), WINDOW_MINUTES = 5
MARKET_OPEN == 9 * 3600 + 30 * 60
MARKET_CLOSE == 16 * 3600
WINDOW_MINUTES == 5

LocalDate(t) == t \div DaySeconds
LocalTime(t) == t % DaySeconds

\* abs((local_now - target_dt).total_seconds()) / 60 <= WINDOW_MINUTES
WithinWindow(t, target) == Abs(LocalTime(t) - target) <= WINDOW_MINUTES * 60

\* a session window that never closes
AlwaysRegularHours(t) == TRUE

InRegularHours(t) == MARKET_OPEN <= LocalTime(t) /\ LocalTime(t) <= MARKET_CLOSE

-----------------------------------------------------------------------------
(* Rows *)

OpenStatuses == {"new", "working", "part_filled"}

NoNotes == [events |-> <<>>, algo_events |-> <<>>, trail_ref |-> None]

NoParams == [slices |-> None, participation |-> None,
             interval_minutes |-> None, interval_seconds |-> None]

\* condition_type and the keys of condition_payload; "" and <<>> are a missing key
NoCondition ==
    [type |-> "none", operator |-> "gte", value |-> None, timestamp |-> NoTime,
     indicator |-> "", basis |-> "", symbol |-> "", compare_symbol |-> "",
     conditions |-> <<>>]

\* PaperOrder with the defaults of its fields
BaseOrder ==
    [id |-> 0, portfolio |-> 1, symbol |-> "AAPL", side |-> "buy",
     order_type |-> "market", tif |-> "day", tif_date |-> NoTime,
     quantity |-> None, notional |-> None, limit_price |-> None,
     stop_price |-> None, trail_amount |-> None, trail_percent |-> None,
     reserve_quantity |-> None, pegged_offset |-> None,
     extended_hours |-> FALSE, condition |-> NoCondition,
     parent |-> 0, chain_id |-> "", child_role |-> "",
     algo_params |-> NoParams, algo_next_run_at |-> NoTime,
     algo_slice_index |-> 0, status |-> "new", filled_quantity |-> Zero,
     average_fill_price |-> None, created_at |-> 0, notes |-> NoNotes]

NoPosition == [exists |-> FALSE, quantity |-> Zero, avg_price |-> Zero,
               market_value |-> Zero, unrealized_pnl |-> Zero]

\* FillResult, and None for "no result"
NoResult == [some |-> FALSE, filled |-> FALSE, quantity |-> Zero, price |-> Zero,
             remaining |-> Zero, fees |-> Zero, slippage |-> Zero]
FillResult(qty, price, remaining) ==
    [some |-> TRUE, filled |-> TRUE, quantity |-> qty, price |-> price,
     remaining |-> remaining, fees |-> Zero, slippage |-> Zero]

NoQuote == [ok |-> FALSE, price |-> None, bid |-> None, ask |-> None, volume |-> None]
Quote(price, bid, ask, volume) ==
    [ok |-> TRUE, price |-> price, bid |-> bid, ask |-> ask, volume |-> volume]

\* the decimal_places of the DecimalFields the engine writes
OrderPlaces == [quantity |-> 6, filled_quantity |-> 6, average_fill_price |-> 4,
                limit_price |-> 4, stop_price |-> 4]

\* a PaperPosition, a PaperTrade and a PaperPortfolio as their rows keep them
PositionRow(p) ==
    [p EXCEPT !.quantity = Quantize(@, 6), !.avg_price = Quantize(@, 4),
              !.market_value = Quantize(@, 2), !.unrealized_pnl = Quantize(@, 2)]
TradeRow(tr) ==
    [tr EXCEPT !.quantity = Quantize(@, 6), !.price = Quantize(@, 4),
               !.fees = Quantize(@, 4), !.slippage = Quantize(@, 4),
               !.realized_pnl = Quantize(@, 2)]
PortfolioRow(row, pf) ==
    [row EXCEPT !.cash_balance = Quantize(pf.cash_balance, 2),
                !.equity = Quantize(pf.equity, 2),
                !.unrealized_pnl = Quantize(pf.unrealized_pnl, 2),
                !.realized_pnl = Quantize(pf.realized_pnl, 2)]

\* order.save(update_fields=fields): the named fields of the in-memory object
\* overwrite the row
Save(db, order, fields) ==
    [db EXCEPT !.orders[order.id] =
        [f \in DOMAIN @ |->
            IF f \notin fields THEN @[f]
            ELSE IF f \in DOMAIN OrderPlaces THEN Quantize(order[f], OrderPlaces[f])
            ELSE order[f]]]

\* What a handler hands back: the in-memory order as it left it, the database,
\* and the FillResult
Out(order, db, result) == [order |-> order, db |-> db, result |-> result]

-----------------------------------------------------------------------------
(* ConditionEvaluator *)

Compare(operator, a, b) ==
    CASE operator = "gt" -> Gt(a, b)
      [] operator = "gte" -> Ge(a, b)
      [] operator = "lt" -> Lt(a, b)
      [] operator = "lte" -> Le(a, b)
      [] operator = "eq" -> a = b
      [] OTHER -> Ge(a, b)

\* what the data provider answers beside the quote of the order's symbol: the
\* price history (empty, failing, or one on which the indicators take a value)
\* and the quotes of the symbols a condition names; and where it fails, the
\* database: fault is the statement of _apply_fill that raises (0: none)
Feed(history, value, quotes) ==
    [history |-> history, value |-> value, quotes |-> quotes, fault |-> 0]
Quiet == Feed("empty", None, [s \in {"AAPL", "MSFT", "SPY"} |-> NoQuote])

\* IndicatorService.get_value(symbol, payload) for an indicator of the price
\* history: the value, None, or the exception of the history fetch
GetValue(indicator, feed) ==
    IF indicator = "" THEN [raised |-> FALSE, value |-> None]
    ELSE IF feed.history = "fails" THEN [raised |-> TRUE, value |-> None]
    ELSE IF feed.history = "empty" THEN [raised |-> FALSE, value |-> None]
    ELSE IF indicator \in {"sma", "ema", "rsi", "volume"}
    THEN [raised |-> FALSE, value |-> feed.value]
    ELSE [raised |-> FALSE, value |-> None]

\* satisfied(order, quote, now) for the condition c of an order in symbol: "true",
\* "false", or "raise" when an exception leaves the method
RECURSIVE Holds(_, _, _, _, _)
Holds(c, symbol, quote, t, feed) ==
    LET Pass(b) == IF b THEN "true" ELSE "false"
        Measured(v, threshold) ==
            IF v.raised THEN "raise"
            ELSE IF IsNone(v.value) \/ IsNone(threshold) THEN "true"
            ELSE Pass(Compare(c.operator, v.value, threshold))
        \* base_quote, then compare_value
        Crossed(base) ==
            IF ~base.ok THEN "true"
            ELSE IF c.compare_symbol # ""
            THEN IF ~feed.quotes[c.compare_symbol].ok THEN "true"
                 ELSE Pass(Compare(c.operator, base.price,
                                   feed.quotes[c.compare_symbol].price))
            ELSE Pass(Compare(c.operator, base.price,
                              IF IsNone(c.value) THEN quote.price ELSE c.value))
        Grouped(results) ==
            IF \E k \in DOMAIN results : results[k] = "raise" THEN "raise"
            ELSE IF c.type = "and_group"
            THEN Pass(\A k \in DOMAIN results : results[k] = "true")
            ELSE Pass(\E k \in DOMAIN results : results[k] = "true")
    IN  CASE c.type = "none" -> "true"
          [] c.type = "price" ->
                IF IsNone(c.value) THEN "true"
                ELSE Pass(Compare(c.operator, quote.price, c.value))
          [] c.type = "time" ->
                IF c.timestamp \in {NoTime, Unparsable} THEN "true"
                ELSE Pass(t >= c.timestamp)
          [] c.type = "indicator" -> Measured(GetValue(c.indicator, feed), c.value)
          [] c.type = "cross_symbol" ->
                Crossed(IF c.symbol \in {"", symbol} THEN quote ELSE feed.quotes[c.symbol])
          [] c.type \in {"and_group", "or_group"} ->
                Grouped([k \in DOMAIN c.conditions |->
                            Holds(c.conditions[k], symbol, quote, t, feed)])
          [] c.type = "volume" ->
                IF c.basis = "average" THEN Measured(GetValue("volume", feed), c.value)
                ELSE IF IsNone(quote.volume) \/ IsNone(c.value) THEN "true"
                ELSE Pass(Compare(c.operator, quote.volume, c.value))
          [] OTHER -> "true"

\* the condition fields the order object carries when satisfied() is left: a group
\* sets them to each child in turn and puts the original ones back after the
\* loop, which an exception in a child's evaluation never reaches
RECURSIVE ConditionOnExit(_, _, _, _, _)
ConditionOnExit(c, symbol, quote, t, feed) ==
    LET Raising == {k \in DOMAIN c.conditions :
                       Holds(c.conditions[k], symbol, quote, t, feed) = "raise"}
        First(ks) == CHOOSE k \in ks : \A j \in ks : k <= j
    IN  IF c.type \in {"and_group", "or_group"} /\ Raising # {}
        THEN ConditionOnExit(c.conditions[First(Raising)], symbol, quote, t, feed)
        ELSE c

\* whether evaluating the condition calls get_value for an indicator of the price
\* history (an indicator condition that names one, a volume condition on the average)
RECURSIVE UsesHistory(_)
UsesHistory(c) ==
    \/ c.type = "indicator" /\ c.indicator # ""
    \/ c.type = "volume" /\ c.basis = "average"
    \/ /\ c.type \in {"and_group", "or_group"}
       /\ \E k \in DOMAIN c.conditions : UsesHistory(c.conditions[k])

Satisfied(order, quote, t, feed) == Holds(order.condition, order.symbol, quote, t, feed)

-----------------------------------------------------------------------------
(* Order handlers *)

\* MarketOrderHandler._resolve_quantity: (order, db, qty, remaining_after)
Resolved(order, db, qty, remaining) ==
    [order |-> order, db |-> db, qty |-> qty, remaining |-> remaining]

\* a resolution that shows the reserve quantity whatever remains
ShowReserve(order, db, price) ==
    Resolved(order, db,
             IF Truthy(order.reserve_quantity) THEN order.reserve_quantity ELSE Zero, Zero)

ResolveQuantity(order, db, price) ==
    LET \* what remains, and the part of it the reserve quantity lets show
        Remaining(o, d, remaining) ==
            IF Le(remaining, Zero) THEN Resolved(o, d, Zero, Zero)
            ELSE IF Truthy(o.reserve_quantity)
                 THEN Resolved(o, d, Min(o.reserve_quantity, remaining),
                               Sub(remaining, Min(o.reserve_quantity, remaining)))
            ELSE Resolved(o, d, remaining, Zero)
        \* the quantity a notional resolves to is stored on the order
        FromNotional(o) ==
            Remaining(o, Save(db, o, {"quantity"}), Sub(o.quantity, o.filled_quantity))
    IN  IF IsNone(order.quantity) /\ Truthy(order.notional)
        THEN FromNotional([order EXCEPT !.quantity = Div(order.notional, price)])
        ELSE IF IsNone(order.quantity) THEN Resolved(order, db, Zero, Zero)
        ELSE Remaining(order, db, Sub(order.quantity, order.filled_quantity))

\* the handler found its gate shut: order.status = "working", saved
Working(order, db) ==
    LET Shut(o) == Out(o, Save(db, o, {"status"}), NoResult)
    IN  Shut([order EXCEPT !.status = "working"])

\* FillResult(filled=True, quantity=qty, price=price, remaining=remaining_after)
Fill(r, price) == Out(r.order, r.db, FillResult(r.qty, price, r.remaining))

MarketMaybeFill(order, db, quote, t) ==
    LET MarketFill(r) ==
            IF Le(r.qty, Zero) THEN Out(r.order, r.db, NoResult) ELSE Fill(r, quote.price)
    IN  IF order.status \notin OpenStatuses THEN Out(order, db, NoResult)
        ELSE MarketFill(ResolveQuantity(order, db, quote.price))

\* price <= limit_price if order.side == "buy" else price >= limit_price
ShouldFill(order, price) ==
    IF order.side = "buy" THEN Le(price, order.limit_price)
    ELSE Ge(price, order.limit_price)

\* price >= stop_price if order.side == "buy" else price <= stop_price
Triggered(order, price) ==
    IF order.side = "buy" THEN Ge(price, order.stop_price)
    ELSE Le(price, order.stop_price)

\* a limit handler that fills at the quote's price
LimitAtQuote(order, db, quote, t) ==
    IF order.status \notin OpenStatuses \/ IsNone(order.limit_price)
    THEN Out(order, db, NoResult)
    ELSE IF ~ShouldFill(order, quote.price) THEN Working(order, db)
    ELSE Fill(ResolveQuantity(order, db, quote.price), quote.price)

LimitMaybeFill(order, db, quote, t) ==
    IF order.status \notin OpenStatuses \/ IsNone(order.limit_price)
    THEN Out(order, db, NoResult)
    ELSE IF ~ShouldFill(order, quote.price) THEN Working(order, db)
    ELSE Fill(ResolveQuantity(order, db, quote.price), order.limit_price)

StopMaybeFill(order, db, quote, t) ==
    IF order.status \notin OpenStatuses \/ IsNone(order.stop_price)
    THEN Out(order, db, NoResult)
    ELSE IF ~Triggered(order, quote.price) THEN Working(order, db)
    ELSE Fill(ResolveQuantity(order, db, quote.price), quote.price)

StopLimitMaybeFill(order, db, quote, t) ==
    IF order.status \notin OpenStatuses \/ IsNone(order.stop_price)
       \/ IsNone(order.limit_price)
    THEN Out(order, db, NoResult)
    ELSE IF ~Triggered(order, quote.price) THEN Working(order, db)
    ELSE IF ~ShouldFill(order, quote.price) THEN Out(order, db, NoResult)
    ELSE Fill(ResolveQuantity(order, db, quote.price), order.limit_price)

TrailingMaybeFill(order, db, quote, t) ==
    LET price == quote.price
        \* order.notes["trail_ref"] = str(ref_price), saved
        Noted(o) == Out(o, Save(db, o, {"notes"}), NoResult)
        TrailFrom(trail, ref_price) ==
            IF (IF order.side = "sell" THEN Le(price, Sub(ref_price, trail))
                ELSE Ge(price, Add(ref_price, trail)))
            THEN Fill(ResolveQuantity(order, db, price), price)
            ELSE Noted([order EXCEPT !.notes.trail_ref = ref_price])
        Trail(trail) ==
            TrailFrom(trail, IF Truthy(order.stop_price) THEN order.stop_price ELSE price)
    IN  IF order.status \notin OpenStatuses THEN Out(order, db, NoResult)
        ELSE IF order.order_type = "trailing_amount" /\ Truthy(order.trail_amount)
        THEN Trail(order.trail_amount)
        ELSE IF order.order_type = "trailing_percent" /\ Truthy(order.trail_percent)
        THEN Trail(Div(Mul(price, order.trail_percent), Q(100)))
        ELSE Out(order, db, NoResult)

TrailingLimitMaybeFill(order, db, quote, t) ==
    LET \* result.price = order.limit_price, for a result that filled
        AtLimit(out) ==
            IF out.result.some /\ out.result.filled /\ Truthy(order.limit_price)
            THEN [out EXCEPT !.result.price = order.limit_price]
            ELSE out
    IN  AtLimit(TrailingMaybeFill(order, db, quote, t))

SessionMaybeFill(order, db, quote, t, target) ==
    IF ~WithinWindow(t, target) THEN Working(order, db)
    ELSE MarketMaybeFill(order, db, quote, t)

LimitSessionMaybeFill(order, db, quote, t, target) ==
    IF ~WithinWindow(t, target) THEN Working(order, db)
    ELSE LimitMaybeFill(order, db, quote, t)

PeggedMaybeFill(order, db, quote, t) ==
    LET price == IF order.order_type = "pegged_mid" /\ Truthy(quote.bid) /\ Truthy(quote.ask)
                 THEN Div(Add(quote.bid, quote.ask), Q(2))
                 ELSE IF order.order_type = "pegged_primary" /\ Truthy(quote.bid)
                 THEN quote.bid
                 ELSE quote.price
        offset == IF Truthy(order.pegged_offset) THEN order.pegged_offset ELSE Zero
        Repriced(o) == LimitMaybeFill(o, Save(db, o, {"limit_price"}), quote, t)
    IN  Repriced([order EXCEPT !.limit_price =
                     IF order.side = "buy" THEN Add(price, offset) ELSE Sub(price, offset)])

NoopMaybeFill(order, db, quote, t) == Out(order, db, NoResult)

-----------------------------------------------------------------------------
(* AlgoOrderHandler *)

DEFAULT_INTERVAL_SECONDS == 60

\* AlgoOrderHandler._resolve_total_quantity: (order, db, total)
Total(order, db, total) == [order |-> order, db |-> db, total |-> total]

\* a resolution that divides the notional by the quote's price every time
ResolveAfresh(order, db, quote) ==
    LET Totalled(o) == Total(o, Save(db, o, {"quantity"}), o.quantity)
    IN  IF Truthy(order.notional)
        THEN Totalled([order EXCEPT !.quantity = Div(order.notional, quote.price)])
        ELSE Total(order, db, IF Truthy(order.quantity) THEN order.quantity ELSE Zero)

ResolveTotalQuantity(order, db, quote) ==
    LET Totalled(o) == Total(o, Save(db, o, {"quantity"}), o.quantity)
    IN  IF Truthy(order.quantity) THEN Total(order, db, order.quantity)
        ELSE IF Truthy(order.notional)
             THEN Totalled([order EXCEPT !.quantity = Div(order.notional, quote.price)])
        ELSE Total(order, db, Zero)

\* a cap that ignores the reserve quantity
NoReserveCap(order, slice_qty, remaining_total) ==
    Max(Min(slice_qty, remaining_total), Zero)

ApplyReserveCap(order, slice_qty, remaining_total) ==
    LET Reserved(capped) ==
            IF Truthy(order.reserve_quantity) THEN Min(capped, order.reserve_quantity)
            ELSE capped
    IN  Max(Reserved(Min(slice_qty, remaining_total)), Zero)

\* the tail the three slice handlers share: the capped slice fills if positive
SliceResult(order, slice_qty, remaining_total, quote) ==
    LET SliceFill(capped) ==
            IF Le(capped, Zero) THEN NoResult
            ELSE FillResult(capped, quote.price, Max(Sub(remaining_total, capped), Zero))
    IN  SliceFill(ApplyReserveCap(order, slice_qty, remaining_total))

\* params.get("participation", 0.1)
Participation(params) ==
    IF IsNone(params.participation) THEN [n |-> 1, d |-> 10] ELSE params.participation

\* a time-weighted handler that divides what remains by the slices asked for,
\* whatever the number of slices already filled
TwapOfAll(order, db, quote, t) ==
    LET slices == MaxInt(1, IF IsNone(order.algo_params.slices) THEN 10
                            ELSE Trunc(order.algo_params.slices))
        Twap(r, remaining_total) ==
            IF Le(remaining_total, Zero) THEN Out(r.order, r.db, NoResult)
            ELSE Out(r.order, r.db,
                     SliceResult(order, Div(remaining_total, Q(slices + 1)),
                                 remaining_total, quote))
        Sliced(r) == Twap(r, Sub(r.total, order.filled_quantity))
    IN  Sliced(ResolveTotalQuantity(order, db, quote))

HandleTwap(order, db, quote, t) ==
    LET \* max(1, int(params.get("slices", 10)))
        slices == MaxInt(1, IF IsNone(order.algo_params.slices) THEN 10
                            ELSE Trunc(order.algo_params.slices))
        Twap(r, remaining_total) ==
            IF Le(remaining_total, Zero) THEN Out(r.order, r.db, NoResult)
            ELSE Out(r.order, r.db,
                     SliceResult(order,
                                 Div(remaining_total,
                                     Q(MaxInt(slices - order.algo_slice_index, 1))),
                                 remaining_total, quote))
        Sliced(r) == Twap(r, Sub(r.total, order.filled_quantity))
    IN  Sliced(ResolveTotalQuantity(order, db, quote))

\* a volume-weighted handler that takes all that remains in one slice
VwapWhole(order, db, quote, t) ==
    LET Vwap(r, remaining_total) ==
            IF Le(remaining_total, Zero) THEN Out(r.order, r.db, NoResult)
            ELSE Out(r.order, r.db, SliceResult(order, remaining_total, remaining_total, quote))
        Sliced(r) == Vwap(r, Sub(r.total, order.filled_quantity))
    IN  Sliced(ResolveTotalQuantity(order, db, quote))

HandleVwap(order, db, quote, t) ==
    LET Vwap(r, remaining_total) ==
            IF Le(remaining_total, Zero) THEN Out(r.order, r.db, NoResult)
            ELSE Out(r.order, r.db,
                     SliceResult(order,
                                 Mul(remaining_total, Participation(order.algo_params)),
                                 remaining_total, quote))
        Sliced(r) == Vwap(r, Sub(r.total, order.filled_quantity))
    IN  Sliced(ResolveTotalQuantity(order, db, quote))

HandlePov(order, db, quote, t) ==
    LET volume == IF Truthy(quote.volume) THEN quote.volume ELSE Zero
        Pov(r, remaining_total) ==
            IF Le(volume, Zero) \/ Le(remaining_total, Zero)
            THEN Out(r.order, r.db, NoResult)
            ELSE Out(r.order, r.db,
                     SliceResult(order, Mul(volume, Participation(order.algo_params)),
                                 remaining_total, quote))
        Sliced(r) == Pov(r, Sub(r.total, order.filled_quantity))
    IN  Sliced(ResolveTotalQuantity(order, db, quote))

IntervalSeconds(params, order_type) ==
    IF order_type = "algo_twap" /\ ~IsNone(params.interval_minutes)
    THEN MaxInt(10, Trunc(Mul(params.interval_minutes, Q(60))))
    ELSE IF ~IsNone(params.interval_seconds)
    THEN MaxInt(5, Trunc(params.interval_seconds))
    ELSE DEFAULT_INTERVAL_SECONDS

UpdateSchedule(order, db, t, result) ==
    LET next_run == t + IntervalSeconds(order.algo_params, order.order_type)
        \* order.save(update_fields=updates)
        Scheduled(o, fields) == Out(o, Save(db, o, fields), result)
    IN  IF result.some /\ result.filled
        THEN Scheduled([order EXCEPT
                           !.algo_next_run_at = next_run,
                           !.algo_slice_index = @ + 1,
                           !.notes.algo_events = Append(@,
                               [timestamp |-> t, event |-> "slice_fill",
                                quantity |-> result.quantity, price |-> result.price,
                                remaining |-> result.remaining])],
                       {"algo_next_run_at", "algo_slice_index", "notes"})
        ELSE Scheduled([order EXCEPT !.algo_next_run_at = next_run], {"algo_next_run_at"})

\* a handler that slices whether the order is due or not
AlgoUngated(order, db, quote, t) ==
    LET Reschedule(h) == UpdateSchedule(h.order, h.db, t, h.result)
    IN  Reschedule(
            CASE order.order_type = "algo_twap" -> HandleTwap(order, db, quote, t)
              [] order.order_type = "algo_vwap" -> HandleVwap(order, db, quote, t)
              [] order.order_type = "algo_pov" -> HandlePov(order, db, quote, t)
              [] OTHER -> Out(order, db, NoResult))

AlgoMaybeFill(order, db, quote, t) ==
    LET Reschedule(h) == UpdateSchedule(h.order, h.db, t, h.result)
    IN  IF order.algo_next_run_at # NoTime /\ t < order.algo_next_run_at
        THEN Out(order, db, NoResult)
        ELSE Reschedule(
                 CASE order.order_type = "algo_twap" -> HandleTwap(order, db, quote, t)
                   [] order.order_type = "algo_vwap" -> HandleVwap(order, db, quote, t)
                   [] order.order_type = "algo_pov" -> HandlePov(order, db, quote, t)
                   [] OTHER -> Out(order, db, NoResult))

\* the target of a session handler
Target(ty) == IF ty \in {"market_open", "limit_open"} THEN MARKET_OPEN ELSE MARKET_CLOSE

\* ExecutionEngine.handlers: the handler of each order type
MaybeFill(order, db, quote, t) ==
    CASE order.order_type = "market" -> MarketMaybeFill(order, db, quote, t)
      [] order.order_type \in {"limit", "hidden_limit", "iceberg"} ->
            LimitMaybeFill(order, db, quote, t)
      [] order.order_type = "stop" -> StopMaybeFill(order, db, quote, t)
      [] order.order_type = "stop_limit" -> StopLimitMaybeFill(order, db, quote, t)
      [] order.order_type \in {"trailing_amount", "trailing_percent"} ->
            TrailingMaybeFill(order, db, quote, t)
      [] order.order_type = "trailing_limit" -> TrailingLimitMaybeFill(order, db, quote, t)
      [] order.order_type \in {"market_open", "market_close"} ->
            SessionMaybeFill(order, db, quote, t, Target(order.order_type))
      [] order.order_type \in {"limit_open", "limit_close"} ->
            LimitSessionMaybeFill(order, db, quote, t, Target(order.order_type))
      [] order.order_type \in {"pegged_mid", "pegged_primary"} ->
            PeggedMaybeFill(order, db, quote, t)
      [] order.order_type \in {"algo_vwap", "algo_twap", "algo_pov"} ->
            AlgoMaybeFill(order, db, quote, t)
      [] OTHER -> NoopMaybeFill(order, db, quote, t)

-----------------------------------------------------------------------------
(* ExecutionEngine: fill application *)

RECURSIVE SumField(_, _, _)
\* Sum("market_value") / Sum("unrealized_pnl") over a set of position keys
SumField(rows, keys, f) ==
    IF keys = {} THEN Zero
    ELSE LET k == CHOOSE x \in keys : TRUE
         IN  Add(rows[k][f], SumField(rows, keys \ {k}, f))

\* portfolio.positions: the position rows of a portfolio
PositionKeys(rows, pid) == {k \in DOMAIN rows : k[1] = pid /\ rows[k].exists}

\* _refresh_position_market_value(position, price_hint)
RefreshPositionMarketValue(position, price) ==
    LET Marked(market_value) ==
            [position EXCEPT
                !.market_value = market_value,
                !.unrealized_pnl =
                    Sub(market_value, Mul(position.quantity, position.avg_price))]
    IN  Marked(Mul(position.quantity, price))

\* a recalculation that leaves the totals as they were
StaleTotals(pf, db) == pf

\* _recalculate_portfolio_totals(portfolio): from the position rows
RecalculatePortfolioTotals(pf, db) ==
    LET keys == PositionKeys(db.positions, pf.id)
    IN  [pf EXCEPT
            !.equity = Add(pf.cash_balance, SumField(db.positions, keys, "market_value")),
            !.unrealized_pnl = SumField(db.positions, keys, "unrealized_pnl")]

Event(name, chain, count, child, role, status, action) ==
    [event |-> name, chain |-> chain, count |-> count, child |-> child,
     role |-> role, status |-> status, action |-> action]

Children(db, id) == {c \in DOMAIN db.orders : db.orders[c].parent = id}

\* QuerySet.update(status=to), or sibling.save(update_fields=["status"]), on the
\* rows in hit
SetStatus(db, hit, to) ==
    [db EXCEPT !.orders =
        [c \in DOMAIN @ |-> IF c \in hit THEN [@[c] EXCEPT !.status = to] ELSE @[c]]]

\* a parent whose fill leaves its children alone
LeaveChildren(order, db) == [order |-> order, db |-> db]

\* _handle_parent_child, the branch of an order that has children
ActivateChildren(order, db) ==
    LET kids == Children(db, order.id)
        chain_id == IF order.chain_id # "" THEN order.chain_id
                    ELSE "chain-" \o ToString(order.id)
        o1 == [order EXCEPT !.chain_id = chain_id]
        db1 == IF order.chain_id # chain_id THEN Save(db, o1, {"chain_id"}) ELSE db
        \* filter(parent_id=order.id, chain_id="").update(chain_id=chain_id)
        db2 == [db1 EXCEPT !.orders =
                   [c \in DOMAIN @ |->
                       IF c \in kids /\ @[c].chain_id = ""
                       THEN [@[c] EXCEPT !.chain_id = chain_id] ELSE @[c]]]
        hit == {c \in kids : db.orders[c].status \in {"new", "waiting"}}
        Logged(o) == [order |-> o, db |-> Save(SetStatus(db2, hit, "working"), o, {"notes"})]
    IN  Logged([o1 EXCEPT !.notes.events = Append(@,
                   Event("activate_children", chain_id, Cardinality(hit), 0, "", "", ""))])

\* _handle_parent_child, the branch of an order that has a parent
PropagateToSiblings(order, db) ==
    LET parent == db.orders[order.parent]
        siblings == Children(db, order.parent) \ {order.id}
        cancels == parent.order_type \in {"bracket", "otoco"}
                   \/ order.child_role \in {"tp", "sl"}
                   \/ parent.order_type = "oco"
        activates == ~cancels /\ parent.order_type = "oto"
        hit == IF cancels
               THEN {c \in siblings : db.orders[c].status \notin {"canceled", "filled"}}
               ELSE IF activates
               THEN {c \in siblings : db.orders[c].status = "new"}
               ELSE {}
        Told(p) == [order |-> order,
                    db |-> Save(SetStatus(db, hit, IF cancels THEN "canceled" ELSE "working"),
                                p, {"notes"})]
    IN  Told([parent EXCEPT !.notes.events =
                 Append(Append(@,
                     Event("child_fill", "", 0, order.id, order.child_role,
                           order.status, "")),
                     Event("chain_action", "", Cardinality(hit), 0, "", "",
                           IF cancels THEN "cancel"
                           ELSE IF activates THEN "activate" ELSE "none"))])

HandleParentChild(order, db) ==
    IF Children(db, order.id) # {} THEN ActivateChildren(order, db)
    ELSE IF order.parent = 0 THEN [order |-> order, db |-> db]
    ELSE PropagateToSiblings(order, db)

\* fill_price = result.price * slippage_multiplier
FillPrice(order, result) ==
    Mul(result.price,
        IF order.side = "buy" THEN Add(Q(1), Div(settings.slippage_bps, Q(10000)))
        ELSE Sub(Q(1), Div(settings.slippage_bps, Q(10000))))

\* fees = (qty * self.fees_per_share) + self.flat_commission + result.fees
Fees(result) ==
    Add(Add(Mul(result.quantity, settings.fees_per_share), settings.flat_commission),
        result.fees)

\* PaperPosition.objects.get_or_create(..., defaults={...})
GetOrCreate(row, fill_price) ==
    IF row.exists THEN row ELSE [NoPosition EXCEPT !.exists = TRUE, !.avg_price = fill_price]

\* a buy that takes the price of the last fill for the average
BoughtAtLast(position, qty, cost, fill_price) ==
    RefreshPositionMarketValue(
        [position EXCEPT !.avg_price = fill_price, !.quantity = Add(@, qty)], fill_price)

\* the position after a buy of qty for cost: the weighted average, the quantity
Bought(position, qty, cost, fill_price) ==
    LET Averaged(total_qty) ==
            [position EXCEPT
                !.avg_price =
                    IF Gt(total_qty, Zero)
                    THEN Div(Add(Mul(position.quantity, position.avg_price), cost),
                             total_qty)
                    ELSE @,
                !.quantity = total_qty]
    IN  RefreshPositionMarketValue(Averaged(Add(position.quantity, qty)), fill_price)

\* the position after a sell of qty, when there is one
Sold(row, qty, fill_price) ==
    IF row.exists
    THEN RefreshPositionMarketValue([row EXCEPT !.quantity = Sub(@, qty)], fill_price)
    ELSE row

\* a position looked up by its symbol alone
AnyPortfolioKey(pf, order) == <<1, order.symbol>>

\* PaperPosition.objects.get_or_create(portfolio=portfolio, symbol=...) and
\* .get(portfolio=portfolio, symbol=...): the row of the position
PositionKey(pf, order) == <<pf.id, order.symbol>>

\* a block that keeps what it wrote before it raised
Unprotected(before, after) == after

\* @transaction.atomic: what the database holds once the block, having written
\* after, raises
Atomic(before, after) == before

\* an average that is the price of the last fill
LastFillPrice(order, qty, fill_price, new_total_filled) == fill_price

\* order.average_fill_price after a fill of qty at fill_price
AverageFillPrice(order, qty, fill_price, new_total_filled) ==
    IF Gt(order.filled_quantity, Zero) /\ Truthy(order.average_fill_price)
    THEN Div(Add(Mul(order.average_fill_price, order.filled_quantity),
                 Mul(fill_price, qty)),
             new_total_filled)
    ELSE fill_price

\* _apply_fill(order, portfolio, result): (order, portfolio, db) afterwards.
\* f is what the method holds as it goes: order, pf (the in-memory portfolio), db,
\* price (fill_price), cost, realized (trade.realized_pnl)
ApplyFill(order, pf, db, result, fault) ==
    LET qty == result.quantity
        key == PositionKey(pf, order)
        row == db.positions[key]
        Filling(fill_price) ==
            [order |-> order, pf |-> pf, db |-> db, price |-> fill_price,
             cost |-> Mul(qty, fill_price), realized |-> Zero]
        \* the cash and the position, by side
        Settled(f) ==
            IF order.side = "buy"
            THEN [f EXCEPT
                    !.pf.cash_balance = Sub(@, Add(f.cost, Fees(result))),
                    !.db.positions[key] =
                        PositionRow(Bought(GetOrCreate(row, f.price), qty, f.cost,
                                           f.price))]
            ELSE [f EXCEPT
                    !.pf.cash_balance = Add(@, Sub(f.cost, Fees(result))),
                    !.db.positions[key] = PositionRow(Sold(row, qty, f.price)),
                    !.realized = IF row.exists
                                 THEN Mul(Sub(f.price, row.avg_price), qty)
                                 ELSE Zero]
        \* PaperTrade.objects.create(...), with the realized_pnl saved on it later
        Traded(f) ==
            [f EXCEPT !.db.trades = Append(@, TradeRow(
                [order |-> order.id, portfolio |-> pf.id, symbol |-> order.symbol,
                 side |-> order.side, quantity |-> qty, price |-> f.price,
                 fees |-> result.fees, slippage |-> result.slippage,
                 realized_pnl |-> f.realized]))]
        \* the order's average_fill_price, filled_quantity and status
        BookedAt(f, new_total_filled) ==
            [f EXCEPT
                !.order.average_fill_price =
                    AverageFillPrice(order, qty, f.price, new_total_filled),
                !.order.filled_quantity = new_total_filled,
                !.order.status =
                    IF Gt(Sub(IF Truthy(order.quantity) THEN order.quantity
                              ELSE new_total_filled,
                              new_total_filled), Zero)
                    THEN "part_filled" ELSE "filled"]
        Booked(f) == BookedAt(f, Add(order.filled_quantity, qty))
        OrderSaved(f) ==
            [f EXCEPT !.db = Save(@, f.order,
                                  {"status", "filled_quantity", "average_fill_price"})]
        \* the portfolio totals, and its realized_pnl
        Totalled(f) ==
            [f EXCEPT !.pf = [RecalculatePortfolioTotals(f.pf, f.db) EXCEPT
                                 !.realized_pnl = Add(@, f.realized)]]
        \* portfolio.save(update_fields=["cash_balance", "equity", "unrealized_pnl",
        \* "realized_pnl"])
        Stored(f, chained) ==
            [order |-> chained.order, pf |-> f.pf, raised |-> FALSE,
             db |-> [chained.db EXCEPT !.portfolios[pf.id] = PortfolioRow(@, f.pf)]]
        \* an exception leaves the method and its transaction
        Raised(written) ==
            [order |-> order, pf |-> pf, raised |-> TRUE, db |-> Atomic(db, written)]
        \* the statements that write, in their order: the position (1), the
        \* trade (2), the order (3), the chain (4), the portfolio (5)
        Chained(f) ==
            IF fault = 4 THEN Raised(f.db)
            ELSE IF fault = 5 THEN Raised(HandleParentChild(f.order, f.db).db)
            ELSE Stored(f, HandleParentChild(f.order, f.db))
        Ordered(f) ==
            IF fault = 3 THEN Raised(f.db) ELSE Chained(Totalled(OrderSaved(Booked(f))))
        Positioned(f) == IF fault = 2 THEN Raised(f.db) ELSE Ordered(Traded(f))
        Begun(f) == IF fault = 1 THEN Raised(f.db) ELSE Positioned(Settled(f))
    IN  Begun(Filling(FillPrice(order, result)))

-----------------------------------------------------------------------------
(* ExecutionEngine: one order, one portfolio, one run *)

\* a gate that lets every order through
NeverExpires(order, t) == FALSE

\* _tif_allows_processing: does the order expire now?
TifExpires(order, t) ==
    \/ order.tif = "day" /\ LocalDate(t) > LocalDate(order.created_at)
    \/ order.tif = "gtd" /\ order.tif_date # NoTime /\ t > order.tif_date

\* a status change that is never saved
KeepStatus(order, db, status) == db

\* order.status = status; order.save(update_fields=["status"])
SetOrderStatus(order, db, status) ==
    LET Set(o) == Save(db, o, {"status"}) IN Set([order EXCEPT !.status = status])

\* what a call of _process_order_instance did: the database it left, where it
\* returned, the quote it got and the result it applied
Did(db, outcome, quote, result) ==
    [db |-> db, outcome |-> outcome, quote |-> quote, result |-> result]

\* _process_order_instance(order, now), with the quote _get_quote would answer;
\* the status is the one the row has now
ProcessOrderInstance(mem, db, t, quote, feed) ==
    LET \* after _apply_fill: a fill-or-kill order that is left with a remainder
        Applied(a, result) ==
            IF a.raised THEN Did(a.db, "raised", quote, result)
            ELSE IF a.order.tif = "fok" /\ Gt(result.remaining, Zero)
            THEN Did(SetOrderStatus(a.order, a.db, "canceled"), "fill", quote, result)
            ELSE Did(a.db, "fill", quote, result)
        \* after handler.maybe_fill
        Handled(h) ==
            IF h.result.some /\ h.result.filled
            THEN Applied(ApplyFill(h.order, mem.pf, h.db, h.result, feed.fault), h.result)
            ELSE IF h.order.tif \in {"ioc", "fok"}
            THEN Did(SetOrderStatus(h.order, h.db, "canceled"), "nofill", quote, NoResult)
            ELSE Did(h.db, "nofill", quote, NoResult)
        Gated(order) ==
            IF order.status \notin OpenStatuses THEN Did(db, "closed", NoQuote, NoResult)
            ELSE IF TifExpires(order, t)
            THEN Did(SetOrderStatus(order, db, "expired"), "expired", NoQuote, NoResult)
            ELSE IF ~order.extended_hours /\ ~InRegularHours(t)
            THEN Did(db, "hours", NoQuote, NoResult)
            ELSE IF ~quote.ok THEN Did(db, "noquote", quote, NoResult)
            ELSE IF Satisfied(order, quote, t, feed) = "raise"
            THEN Did(db, "raised", quote, NoResult)
            ELSE IF Satisfied(order, quote, t, feed) = "false"
            THEN Did(db, "condition", quote, NoResult)
            ELSE Handled(MaybeFill(order, db, quote, t))
    IN  Gated([mem.order EXCEPT !.status = db.orders[mem.order.id].status])

Database == [orders |-> orders, portfolios |-> portfolios, positions |-> positions,
             trades |-> trades]

RECURSIVE ByCreatedAt(_, _)
\* .order_by("created_at")
ByCreatedAt(rows, ids) ==
    IF ids = {} THEN <<>>
    ELSE LET first == CHOOSE i \in ids : \A j \in ids : rows[i].created_at <= rows[j].created_at
         IN  <<first>> \o ByCreatedAt(rows, ids \ {first})

RECURSIVE Ascending(_)
Ascending(ids) ==
    IF ids = {} THEN <<>>
    ELSE LET first == CHOOSE i \in ids : \A j \in ids : i <= j
         IN  <<first>> \o Ascending(ids \ {first})

\* portfolio.orders.filter(status__in=[...]).select_related("portfolio"): every
\* order object of the result carries its own copy of the portfolio row
OpenOrders(pid) ==
    LET Snapshots(sorted) ==
            [k \in 1..Len(sorted) |-> [order |-> orders[sorted[k]], pf |-> portfolios[pid]]]
    IN  Snapshots(ByCreatedAt(orders, {i \in DOMAIN orders :
                                          /\ orders[i].portfolio = pid
                                          /\ orders[i].status \in OpenStatuses}))

Idle == pfqueue = <<>> /\ queue = <<>>

\* bound: engine runs in one behaviour
MaxRuns == 4

\* ExecutionEngine.run(simulation_time): the run starts, at a later time
Run ==
    /\ Idle
    /\ runs < MaxRuns
    /\ \E step \in market.steps : now' = now + step
    /\ runs' = runs + 1
    /\ pfqueue' = Ascending(DOMAIN portfolios)
    /\ UNCHANGED <<orders, portfolios, positions, trades, settings, queue, market, last,
                   algo_orders, runner, cache>>

\* ExecutionEngine.process_portfolio: the open orders are read
ProcessPortfolio ==
    /\ queue = <<>>
    /\ pfqueue # <<>>
    /\ queue' = OpenOrders(Head(pfqueue))
    /\ pfqueue' = Tail(pfqueue)
    /\ UNCHANGED <<orders, portfolios, positions, trades, settings, now, runs, market, last,
                   algo_orders, runner, cache>>

\* what a call of _process_order_instance on the order object mem leaves in the
\* database, and the record of it
Commit(mem, quote, feed) ==
    LET \* df = self.cache.get(key): the history get_value reads is the cached one
        Cached(held) ==
            IF held.held THEN [feed EXCEPT !.history = held.history, !.value = held.value]
            ELSE feed
        \* self.cache[key] = df, when the condition was evaluated and the fetch made
        Fetched(did, seen) ==
            IF /\ did.outcome \notin {"closed", "expired", "hours", "noquote"}
               /\ UsesHistory(mem.order.condition)
               /\ seen.history # "fails"
            THEN [cache EXCEPT ![mem.order.symbol] =
                     [held |-> TRUE, history |-> seen.history, value |-> seen.value]]
            ELSE cache
        Write(id, did, seen) ==
            /\ orders' = did.db.orders
            /\ portfolios' = did.db.portfolios
            /\ positions' = did.db.positions
            /\ trades' = did.db.trades
            /\ cache' = Fetched(did, seen)
            /\ last' = [id |-> id, run |-> runs, outcome |-> did.outcome,
                        quote |-> did.quote, result |-> did.result, prior |-> orders[id],
                        feed |-> seen]
        Called(seen) ==
            Write(mem.order.id, ProcessOrderInstance(mem, Database, now, quote, seen), seen)
    IN  Called(Cached(cache[mem.order.symbol]))

\* process_portfolio's loop body: the next order object is processed
ProcessOrder ==
    LET \* an exception leaves process_portfolio and run: the pass ends there
        Passed(outcome) ==
            /\ queue' = IF outcome = "raised" THEN <<>> ELSE Tail(queue)
            /\ pfqueue' = IF outcome = "raised" THEN <<>> ELSE pfqueue
    IN  /\ queue # <<>>
        /\ \E quote \in market.quotes, feed \in market.feeds :
              Commit(Head(queue), quote, feed)
        /\ Passed(last'.outcome)
        /\ UNCHANGED <<settings, now, runs, market, algo_orders, runner>>

Next == Run \/ ProcessPortfolio \/ ProcessOrder

-----------------------------------------------------------------------------
(* Initial states: the order books, ledgers and markets the engine is run on *)

At(day, h, m, sec) == day * DaySeconds + h * 3600 + m * 60 + sec

\* settings.PAPER_SLIPPAGE_BPS, PAPER_FEES_PER_SHARE, PAPER_FLAT_COMMISSION:
\* their defaults, and a deployment that sets them
Free == [slippage_bps |-> Zero, fees_per_share |-> Zero, flat_commission |-> Zero,
         rounding |-> "even"]
Costly == [slippage_bps |-> Q(100), fees_per_share |-> Norm(1, 10), flat_commission |-> Q(1),
           rounding |-> "even"]

Portfolio(id, cash, equity) ==
    [id |-> id, cash_balance |-> cash, equity |-> equity,
     realized_pnl |-> Zero, unrealized_pnl |-> Zero]

Held(qty, avg, mark) ==
    [exists |-> TRUE, quantity |-> qty, avg_price |-> avg,
     market_value |-> Mul(qty, mark), unrealized_pnl |-> Mul(qty, Sub(mark, avg))]

\* quotes on either side of the price levels the orders below use
Low == Quote(Q(14), Q(13), Q(15), Q(80))
High == Quote(Q(16), Q(15), Q(17), Q(80))

Scenario(book, pfs, held, cfg, quotes, steps, t0) ==
    [orders |-> book, portfolios |-> pfs, positions |-> held, settings |-> cfg,
     market |-> [quotes |-> quotes, steps |-> steps, feeds |-> {Quiet}], t0 |-> t0]

OnePortfolio == <<Portfolio(1, Q(1000), Q(1036))>>
Flat(pfs) == [k \in (DOMAIN pfs) \X {"AAPL", "MSFT"} |-> NoPosition]
LongAAPL(pfs) == [Flat(pfs) EXCEPT ![<<1, "AAPL">>] = Held(Q(3), Q(12), Q(12))]

\* the price fields each order type needs, around the level 15
Priced(o) ==
    LET ty == o.order_type IN
    CASE ty \in {"limit", "hidden_limit", "iceberg", "limit_open", "limit_close"} ->
            [o EXCEPT !.limit_price = Q(15)]
      [] ty = "stop" -> [o EXCEPT !.stop_price = Q(15)]
      [] ty = "stop_limit" ->
            [o EXCEPT !.stop_price = Q(15),
                      !.limit_price = IF o.side = "buy" THEN Q(15) ELSE Q(13)]
      [] ty = "trailing_amount" -> [o EXCEPT !.stop_price = Q(15), !.trail_amount = Q(1)]
      [] ty = "trailing_percent" -> [o EXCEPT !.stop_price = Q(15), !.trail_percent = Q(5)]
      [] ty = "trailing_limit" ->
            [o EXCEPT !.stop_price = Q(15), !.trail_amount = Q(1), !.limit_price = Q(15)]
      [] ty \in {"pegged_mid", "pegged_primary"} -> [o EXCEPT !.pegged_offset = Q(1)]
      [] ty = "algo_twap" ->
            [o EXCEPT !.algo_params.slices = Q(2), !.algo_params.interval_minutes = Q(1)]
      [] ty \in {"algo_vwap", "algo_pov"} ->
            [o EXCEPT !.algo_params.participation = Norm(1, 2)]
      [] OTHER -> o

\* how much the order asks for: quantity or notional, with or without a reserve
Sizings ==
    { [quantity |-> Q(5), notional |-> None, reserve_quantity |-> Q(2)],
      [quantity |-> Q(5), notional |-> None, reserve_quantity |-> None],
      [quantity |-> None, notional |-> Q(56), reserve_quantity |-> None],
      [quantity |-> None, notional |-> Q(56), reserve_quantity |-> Q(2)] }

Sized(o, sz) ==
    [o EXCEPT !.quantity = sz.quantity, !.notional = sz.notional,
              !.reserve_quantity = sz.reserve_quantity]

OrderTypes ==
    {"market", "limit", "stop", "stop_limit", "trailing_amount", "trailing_percent",
     "trailing_limit", "market_close", "market_open", "limit_close", "limit_open",
     "pegged_mid", "pegged_primary", "hidden_limit", "iceberg", "bracket", "oco",
     "oto", "otoco", "algo_vwap", "algo_twap", "algo_pov"}

Order(id, ty, side, tif, sz, t0) ==
    Sized(Priced([BaseOrder EXCEPT !.id = id, !.order_type = ty, !.side = side,
                                   !.tif = tif, !.extended_hours = TRUE,
                                   !.created_at = t0 - 100 + id]), sz)

\* one order of every type, side, time in force and sizing, near the close
SingleOrderScenarios ==
    { Scenario(<<Order(1, ty, side, tif, sz, At(1, 15, 53, 0))>>,
               OnePortfolio, LongAAPL(OnePortfolio), Free, {Low, High}, {60},
               At(1, 15, 53, 0)) :
        ty \in OrderTypes, side \in {"buy", "sell"},
        tif \in {"day", "gtc", "ioc", "fok"}, sz \in Sizings }

\* a parent with a take-profit limit, a stop-loss stop and a third child that is
\* already closed (test_bracket_exits_cancel, test_oco_cancel,
\* test_otoco_child_fill_cancels_sibling, test_oto_activates_child)
Whole == [quantity |-> Q(5), notional |-> None, reserve_quantity |-> None]

Child(id, ty, role, status, chain, t0) ==
    [Order(id, ty, "sell", "day", Whole, t0) EXCEPT
        !.parent = 1, !.child_role = role, !.status = status, !.chain_id = chain]

Closed(o, status) ==
    [o EXCEPT !.status = status,
              !.filled_quantity = IF status = "filled" THEN o.quantity ELSE Zero]

ChainBook(ptype, pstatus, pchain, roles, cstatus, cchain, third, t0) ==
    << Closed([Order(1, ptype, "buy", "day", Whole, t0) EXCEPT !.chain_id = pchain],
              pstatus),
       Child(2, "limit", roles[1], cstatus, cchain, t0),
       Child(3, "stop", roles[2], cstatus, "", t0),
       Closed(Child(4, "limit", "", "new", cchain, t0), third) >>

ChainScenarios ==
    { Scenario(ChainBook(ptype, pstatus, pchain, roles, cstatus, cchain, third,
                         At(1, 10, 0, 0)),
               OnePortfolio, LongAAPL(OnePortfolio), Free, {Low, High}, {60},
               At(1, 10, 0, 0)) :
        ptype \in {"market", "limit", "bracket", "oco", "oto", "otoco"},
        pstatus \in {"new", "filled"},
        pchain \in {"", "chain-x"},
        roles \in {<<"tp", "sl">>, <<"", "">>},
        cstatus \in {"new", "working"},
        cchain \in {"", "c1"},
        third \in {"new", "canceled", "filled", "expired"} }

\* a child that has children of its own
NestedBook(ptype, t0) ==
    << Closed(Order(1, ptype, "buy", "day", Whole, t0), "filled"),
       Child(2, "limit", "tp", "working", "", t0),
       Child(3, "stop", "sl", "working", "", t0),
       [Child(4, "limit", "", "new", "", t0) EXCEPT !.parent = 2] >>

NestedScenarios ==
    { Scenario(NestedBook(ptype, At(1, 10, 0, 0)),
               OnePortfolio, LongAAPL(OnePortfolio), Free, {Low, High}, {60},
               At(1, 10, 0, 0)) :
        ptype \in {"bracket", "oco", "oto", "otoco", "market"} }

\* sliced orders run more often than their interval
\* (test_algo_twap_reserve_and_schedule, test_algo_vwap_..., test_algo_pov_...)
Intervals ==
    { NoParams,
      [NoParams EXCEPT !.interval_minutes = Q(1)],
      [NoParams EXCEPT !.interval_minutes = Norm(1, 10)],
      [NoParams EXCEPT !.interval_seconds = Q(2)],
      [NoParams EXCEPT !.interval_seconds = Q(90)] }

AlgoSizings ==
    { [quantity |-> Q(10), notional |-> None, reserve_quantity |-> Q(3)],
      [quantity |-> Q(10), notional |-> None, reserve_quantity |-> None],
      [quantity |-> None, notional |-> Q(56), reserve_quantity |-> None] }

Thin == Quote(Q(14), None, None, Q(8))
Dark == Quote(Q(14), None, None, None)

AlgoOrder(ty, tif, sz, iv, knobs, t0) ==
    [Order(1, ty, "buy", tif, sz, t0) EXCEPT
        !.algo_params = [iv EXCEPT !.slices = knobs.slices,
                                   !.participation = knobs.participation]]

AlgoKnobs ==
    { [slices |-> Q(4), participation |-> Norm(1, 2)],
      [slices |-> Q(3), participation |-> Q(1)],
      [slices |-> None, participation |-> None],
      [slices |-> Q(0), participation |-> Q(0)] }

AlgoScenarios ==
    { Scenario(<<AlgoOrder(ty, tif, sz, iv, knobs, At(1, 10, 0, 0))>>,
               OnePortfolio, Flat(OnePortfolio), Free,
               IF ty = "algo_pov" THEN {Thin, Dark} ELSE {Thin}, {30, 65},
               At(1, 10, 0, 0)) :
        ty \in {"algo_twap", "algo_vwap", "algo_pov"}, tif \in {"day", "fok"},
        sz \in AlgoSizings, iv \in Intervals, knobs \in AlgoKnobs }

\* regular hours and the session windows: runs before, in and after the window
\* around the open, by orders with and without extended_hours
SessionScenarios ==
    { Scenario(<<[Order(1, ty, side, tif, sz, t0) EXCEPT !.extended_hours = ext]>>,
               OnePortfolio, LongAAPL(OnePortfolio), Free, {Low, High}, {300}, t0) :
        ty \in {"market", "limit", "market_open", "limit_open", "market_close",
                "limit_close"},
        side \in {"buy", "sell"}, tif \in {"day", "ioc", "fok"},
        sz \in {s \in Sizings : IsNone(s.notional)},
        ext \in BOOLEAN, t0 \in {At(1, 9, 18, 0), At(1, 15, 48, 0)} }

\* a quote source that may fail, and orders that wait for a price or a time
Conditions(t0) ==
    { [NoCondition EXCEPT !.type = "price", !.operator = "gte", !.value = Q(15)],
      [NoCondition EXCEPT !.type = "price", !.operator = "lt", !.value = Q(15)],
      [NoCondition EXCEPT !.type = "price"],
      [NoCondition EXCEPT !.type = "time", !.timestamp = t0 + 90],
      NoCondition }

ConditionScenarios ==
    { Scenario(<<[Order(1, ty, side, tif, sz, At(1, 10, 0, 0)) EXCEPT !.condition = c]>>,
               OnePortfolio, LongAAPL(OnePortfolio), Free, {Low, High, NoQuote}, {60},
               At(1, 10, 0, 0)) :
        ty \in {"market", "limit", "algo_twap"}, side \in {"buy", "sell"},
        tif \in {"day", "ioc", "fok"},
        sz \in {s \in Sizings : IsNone(s.notional)},
        c \in Conditions(At(1, 10, 0, 0)) }

\* two portfolios, two symbols, several orders filling in one run, fees and slippage
TwoPortfolios == <<Portfolio(1, Q(1000), Q(1036)), Portfolio(2, Q(500), Q(500))>>

LedgerBook(ty, tif, sz, t0) ==
    << Order(1, ty, "buy", tif, sz, t0),
       [Order(2, "market", "buy", "day", Whole, t0) EXCEPT !.symbol = "MSFT"],
       [Order(3, "limit", "sell", "gtc", sz, t0) EXCEPT !.portfolio = 2] >>

LedgerScenarios ==
    { Scenario(LedgerBook(ty, tif, sz, At(1, 10, 0, 0)),
               TwoPortfolios, LongAAPL(TwoPortfolios), cfg, {Low, High}, {60},
               At(1, 10, 0, 0)) :
        ty \in {"market", "limit"}, tif \in {"day", "fok"},
        sz \in {s \in Sizings : IsNone(s.notional)}, cfg \in {Free, Costly} }

CostlyScenarios ==
    { Scenario(<<Order(1, ty, side, "day", sz, At(1, 15, 53, 0))>>,
               OnePortfolio, held, Costly, {Low, High}, {60}, At(1, 15, 53, 0)) :
        ty \in OrderTypes, side \in {"buy", "sell"}, sz \in Sizings,
        held \in {Flat(OnePortfolio), LongAAPL(OnePortfolio)} }

\* day orders of yesterday and of today, gtd orders that fall due between the
\* first and the second run, in and out of regular hours, with and without a
\* quote and a condition that holds (test_algo_order_expires_gtd)
ExpiryScenarios ==
    { Scenario(<<[Order(1, ty, "buy", tif, sz, t0) EXCEPT
                     !.extended_hours = ext, !.created_at = born,
                     !.tif_date = IF dated THEN t0 + 90 ELSE NoTime,
                     !.condition = c]>>,
               OnePortfolio, Flat(OnePortfolio), Free, {Low, NoQuote}, {60}, t0) :
        ty \in {"market", "limit", "market_open", "bracket", "algo_twap"},
        tif \in {"day", "gtd"},
        sz \in {Whole, [Whole EXCEPT !.reserve_quantity = Q(2)]},
        ext \in BOOLEAN,
        t0 \in {At(1, 10, 0, 0), At(1, 17, 0, 0)},
        born \in {At(1, 9, 0, 0), At(0, 23, 0, 0)},
        dated \in BOOLEAN,
        c \in {NoCondition,
               [NoCondition EXCEPT !.type = "price", !.operator = "gte", !.value = Q(15)]} }

\* a position built from nothing by buys of 3, 3 and 1, or of 2 and 1, at two
\* prices, with and without slippage and fees
AverageScenarios ==
    { Scenario(<<Order(1, "market", "buy", "day", sz, At(1, 10, 0, 0))>>,
               OnePortfolio, Flat(OnePortfolio), cfg, {Low, High}, {60},
               At(1, 10, 0, 0)) :
        sz \in {[quantity |-> Q(7), notional |-> None, reserve_quantity |-> Q(3)],
                [quantity |-> Q(3), notional |-> None, reserve_quantity |-> Q(2)]},
        cfg \in {Free, Costly, [Free EXCEPT !.rounding = "up"]} }

\* sales for a notional of 50, which not every price of the market divides to
\* six places, in one fill or in two
NotionalScenarios ==
    { Scenario(<<[Order(1, ty, "sell", "day",
                        [quantity |-> None, notional |-> Q(50), reserve_quantity |-> r],
                        At(1, 10, 0, 0))
                  EXCEPT !.algo_params = [NoParams EXCEPT !.slices = Q(2),
                                                          !.participation = Norm(1, 40)]]>>,
               OnePortfolio, LongAAPL(OnePortfolio), cfg,
               {Low, Quote(Q(15), Q(14), Q(16), Q(80)), High}, {60}, At(1, 10, 0, 0)) :
        ty \in {"market", "limit", "stop", "algo_twap", "algo_pov"},
        r \in {None, Q(2)}, cfg \in {Free, [Free EXCEPT !.rounding = "up"]} }

\* a provider with a history the indicators read 50 on and quotes of every symbol,
\* and one of which every call fails
Live == Feed("ok", Q(50), [s \in {"AAPL", "MSFT", "SPY"} |->
                               IF s = "SPY" THEN Low ELSE High])
Broken == Feed("fails", None, [s \in {"AAPL", "MSFT", "SPY"} |-> NoQuote])

\* conditions of every type, with and without the data they need in the payload
FeedConditions(t0) ==
    LET On(type, operator, value) ==
            [NoCondition EXCEPT !.type = type, !.operator = operator, !.value = value]
        Simple ==
            { On("price", "gte", Q(15)), On("price", "lt", None),
              [On("time", "gte", None) EXCEPT !.timestamp = t0 + 90],
              [On("time", "gte", None) EXCEPT !.timestamp = Unparsable],
              On("time", "gte", None),
              [On("indicator", "gte", Q(40)) EXCEPT !.indicator = "sma"],
              [On("indicator", "lt", Q(40)) EXCEPT !.indicator = "rsi"],
              [On("indicator", "lt", None) EXCEPT !.indicator = "ema"],
              [On("indicator", "lt", Q(40)) EXCEPT !.indicator = "macd"],
              On("indicator", "lt", Q(40)),
              [On("cross_symbol", "gt", Q(15)) EXCEPT !.symbol = "MSFT"],
              [On("cross_symbol", "gt", None) EXCEPT !.compare_symbol = "SPY"],
              [On("cross_symbol", "lt", None) EXCEPT !.symbol = "MSFT",
                                                      !.compare_symbol = "SPY"],
              On("cross_symbol", "gt", None),
              On("volume", "gt", Q(100)), On("volume", "gt", None),
              [On("volume", "gt", Q(100)) EXCEPT !.basis = "average"],
              [On("volume", "lte", Q(100)) EXCEPT !.basis = "average"] }
        Group(type, children) == [On(type, "gte", None) EXCEPT !.conditions = children]
    IN  Simple
        \cup { Group(type, children) :
                 type \in {"and_group", "or_group"},
                 children \in { <<>>,
                                <<On("price", "gte", Q(15)), On("volume", "gt", None)>>,
                                <<On("price", "lt", Q(15)),
                                  [On("indicator", "gte", Q(40)) EXCEPT
                                      !.indicator = "sma"]>>,
                                <<Group("or_group", <<>>), On("price", "lt", None)>> } }

FeedScenarios ==
    { [Scenario(<<[Order(1, "market", "buy", tif, sz, At(1, 10, 0, 0))
                   EXCEPT !.condition = c]>>,
                OnePortfolio, Flat(OnePortfolio), Free, {Low, High, Dark}, {60},
                At(1, 10, 0, 0))
       EXCEPT !.market.feeds = {Quiet, Live, Broken}] :
        tif \in {"day", "ioc"}, sz \in {Whole, [Whole EXCEPT !.reserve_quantity = Q(2)]},
        c \in FeedConditions(At(1, 10, 0, 0)) }

\* chains and two-portfolio books on a database that may fail at any statement
\* of _apply_fill, and two-portfolio books whose first order waits for an
\* indicator on a provider whose history fetch may fail
FaultScenarios ==
    { [sc EXCEPT !.market.feeds = {Quiet} \cup {[Quiet EXCEPT !.fault = k] : k \in 1..5}] :
        sc \in {c \in ChainScenarios :
                    /\ c.orders[1].order_type \in {"market", "bracket"}
                    /\ c.orders[1].chain_id = "chain-x" /\ c.orders[2].chain_id = "c1"
                    /\ c.orders[2].child_role = "tp" /\ c.orders[2].status = "working"
                    /\ c.orders[4].status = "new"} }
    \cup
    { [sc EXCEPT !.market.feeds = {Quiet} \cup {[Quiet EXCEPT !.fault = k] : k \in {2, 5}}] :
        sc \in {l \in LedgerScenarios : l.settings = Free /\ l.orders[1].tif = "day"} }
    \cup
    { [sc EXCEPT !.market.feeds = {Live, Broken},
                 !.orders[1].condition =
                     [NoCondition EXCEPT !.type = "indicator", !.indicator = "sma",
                                         !.value = Q(40)]] :
        sc \in {l \in LedgerScenarios : l.settings = Free /\ l.orders[1].tif = "day"} }

Scenarios ==
    SingleOrderScenarios \cup ChainScenarios \cup NestedScenarios \cup AlgoScenarios
    \cup SessionScenarios \cup ConditionScenarios \cup LedgerScenarios
    \cup CostlyScenarios \cup ExpiryScenarios \cup AverageScenarios
    \cup NotionalScenarios \cup FeedScenarios \cup FaultScenarios

NoLast == [id |-> 0, run |-> 0, outcome |-> "none", quote |-> NoQuote,
           result |-> NoResult, prior |-> BaseOrder, feed |-> Quiet]

\* no strategies
NoRunner == [strategies |-> <<>>, portfolios |-> <<>>, log |-> <<>>, pending |-> <<>>,
             at |-> NoTime, calls |-> 0, quotes |-> <<>>, raised |-> FALSE]

\* IndicatorService.__init__: self.cache = {}
NoCache == [s \in {"AAPL", "MSFT", "SPY"} |-> [held |-> FALSE, history |-> "", value |-> None]]

\* the engine is idle on the book, ledger and market of a scenario
Start(sc) ==
    /\ orders = sc.orders
    /\ portfolios = sc.portfolios
    /\ positions = sc.positions
    /\ trades = <<>>
    /\ settings = sc.settings
    /\ market = sc.market
    /\ now = sc.t0
    /\ runs = 0
    /\ pfqueue = <<>>
    /\ queue = <<>>
    /\ last = NoLast
    /\ cache = NoCache
    /\ algo_orders = <<>>

Init == \E sc \in Scenarios : Start(sc) /\ runner = NoRunner

Spec == Init /\ [][Next]_vars

-----------------------------------------------------------------------------
(* The periodic tasks run_execution_engine and run_algo_slices side by side *)

RECURSIVE ByNextRun(_, _)
\* .order_by("algo_next_run_at", "created_at"), an unset algo_next_run_at first
ByNextRun(rows, ids) ==
    IF ids = {} THEN <<>>
    ELSE LET Before(i, j) ==
                 \/ rows[i].algo_next_run_at < rows[j].algo_next_run_at
                 \/ /\ rows[i].algo_next_run_at = rows[j].algo_next_run_at
                    /\ rows[i].created_at <= rows[j].created_at
             first == CHOOSE i \in ids : \A j \in ids : Before(i, j)
         IN  <<first>> \o ByNextRun(rows, ids \ {first})

\* run_algo_slices: the sliced orders that are due are read, each order object
\* with its own copy of the portfolio row
RunAlgoSlices ==
    LET Snapshots(sorted) ==
            [k \in 1..Len(sorted) |->
                [order |-> orders[sorted[k]], pf |-> portfolios[orders[sorted[k]].portfolio]]]
        Due(i) ==
            /\ orders[i].order_type \in {"algo_twap", "algo_vwap", "algo_pov"}
            /\ orders[i].status \in {"new", "working", "waiting", "part_filled"}
            /\ orders[i].algo_next_run_at = NoTime \/ orders[i].algo_next_run_at <= now
    IN  /\ algo_orders = <<>>
        /\ {i \in DOMAIN orders : Due(i)} # {}
        /\ algo_orders' = Snapshots(ByNextRun(orders, {i \in DOMAIN orders : Due(i)}))
        /\ UNCHANGED <<orders, portfolios, positions, trades, settings, now, runs, pfqueue,
                       queue, market, last, runner, cache>>

\* run_algo_slices' loop body: engine.process_order(order) on the next order
\* object; an exception ends the task
ProcessAlgoOrder ==
    /\ algo_orders # <<>>
    /\ \E quote \in market.quotes, feed \in market.feeds :
          Commit(Head(algo_orders), quote, feed)
    /\ algo_orders' = IF last'.outcome = "raised" THEN <<>> ELSE Tail(algo_orders)
    /\ UNCHANGED <<settings, now, runs, pfqueue, queue, market, runner>>

\* sliced orders for a quantity of 10, good for the day
RaceScenarios ==
    {sc \in AlgoScenarios :
        /\ sc.orders[1].quantity = Q(10) /\ IsNone(sc.orders[1].reserve_quantity)
        /\ sc.orders[1].tif = "day" /\ sc.orders[1].algo_params.slices = Q(4)}

RaceSpec ==
    /\ \E sc \in RaceScenarios : Start(sc) /\ runner = NoRunner
    /\ [][Next \/ RunAlgoSlices \/ ProcessAlgoOrder]_vars

\* the engine run again and again on one algo_twap or algo_pov order for a
\* quantity of 10, good for the day, with its slices and participation set
AlgoSpec ==
    /\ \E sc \in AlgoScenarios :
          /\ sc.orders[1].order_type \in {"algo_twap", "algo_pov"}
          /\ sc.orders[1].quantity = Q(10)
          /\ sc.orders[1].tif = "day"
          /\ ~IsNone(sc.orders[1].algo_params.slices)
          /\ Start(sc)
          /\ runner = NoRunner
    /\ [][Next]_vars
    /\ WF_vars(Run)
    /\ WF_vars(ProcessPortfolio)
    /\ WF_queue(queue # <<>> /\ queue' \in {Tail(queue), <<>>})

-----------------------------------------------------------------------------
(* StrategyRunner: the periodic task run_strategy_engine *)

\* _should_run(strategy, now); frequency "" is a config without the key
ShouldRun(strategy, t) ==
    LET Seconds(freq) ==
            CASE freq = "1m" -> 60 [] freq = "5m" -> 300 [] freq = "15m" -> 900
              [] freq = "1h" -> 3600 [] freq = "1d" -> 86400 [] OTHER -> 0
        Due(seconds) == IF seconds # 0 THEN t - strategy.last_run_at >= seconds ELSE TRUE
    IN  IF strategy.frequency = "" \/ strategy.last_run_at = NoTime THEN TRUE
        ELSE Due(Seconds(strategy.frequency))

\* bound: runs of the strategy runner in one behaviour
MaxRunnerRuns == 3

\* an order template or inline order block of a strategy's config, and a node
\* of a rule tree; "" and None are a missing key, type "" an empty node
NoTemplate ==
    [side |-> "", order_type |-> "", tif |-> "", limit_price |-> None,
     stop_price |-> None, trail_amount |-> None, quantity |-> None,
     quantity_pct |-> None]

\* _evaluate_node(node, symbol, quote, now): "true", "false", or "raise" when
\* the condition evaluator raises; all() and any() stop at the first child
\* that decides
RECURSIVE EvaluateNode(_, _, _, _, _)
EvaluateNode(node, symbol, quote, t, feed) ==
    LET Branch(k) == EvaluateNode(node.conditions[k], symbol, quote, t, feed)
        RECURSIVE Every(_)
        Every(k) == IF k > Len(node.conditions) THEN "true"
                  ELSE IF Branch(k) = "true" THEN Every(k + 1) ELSE Branch(k)
        RECURSIVE Some(_)
        Some(k) == IF k > Len(node.conditions) THEN "false"
                  ELSE IF Branch(k) = "false" THEN Some(k + 1) ELSE Branch(k)
    IN  IF node.type = "" THEN "false"
        ELSE IF node.type = "and" THEN Every(1)
        ELSE IF node.type = "or" THEN Some(1)
        ELSE Holds(node.condition, symbol, quote, t, feed)

\* _resolve_template(strategy, template_name, overrides): {**base, **overrides};
\* NoTemplate is the empty dictionary, for which None is returned
ResolveTemplate(strategy, template_name, overrides) ==
    LET base == IF template_name \in DOMAIN strategy.order_templates
                THEN strategy.order_templates[template_name] ELSE NoTemplate
    IN  [f \in DOMAIN NoTemplate |->
            IF overrides[f] # NoTemplate[f] THEN overrides[f] ELSE base[f]]

\* _create_order(order_cfg, strategy, portfolio, symbol) for a template without
\* quantity_pct: PaperOrder.objects.create(**data), the row as the table keeps it
CreateOrder(order_cfg, id, pf, symbol, t) ==
    [BaseOrder EXCEPT
        !.id = id, !.portfolio = pf, !.symbol = symbol, !.status = "new",
        !.side = order_cfg.side, !.order_type = order_cfg.order_type,
        !.tif = IF order_cfg.tif = "" THEN "day" ELSE order_cfg.tif,
        !.quantity = Quantize(order_cfg.quantity, 6),
        !.limit_price = Quantize(order_cfg.limit_price, 4),
        !.stop_price = Quantize(order_cfg.stop_price, 4),
        !.trail_amount = Quantize(order_cfg.trail_amount, 4),
        !.created_at = t]

\* evaluate(strategy, portfolio, now) on the orders table book, with the quote
\* fetched for each symbol: the table after it and the StrategyRunLog row, or
\* the exception that leaves it; it is atomic, so that nothing is kept then
Evaluate(strategy, id, pf, t, book, quotes, feed) ==
    LET \* the name Decimal is not bound in the runner's module, so that the
        \* statement of _create_order that resolves a quantity_pct raises NameError
        Unbound(order_cfg) ==
            ~IsNone(order_cfg.quantity_pct) /\ order_cfg.quantity_pct # Zero
        Fired(block, symbol, st) ==
            IF st.raised THEN st
            ELSE IF EvaluateNode(block.rules, symbol, quotes[symbol], t, feed) = "raise"
            THEN [st EXCEPT !.raised = TRUE]
            ELSE IF EvaluateNode(block.rules, symbol, quotes[symbol], t, feed) = "false"
                    \/ ResolveTemplate(strategy, block.template, block.order) = NoTemplate
            THEN st
            ELSE IF Unbound(ResolveTemplate(strategy, block.template, block.order))
            THEN [st EXCEPT !.raised = TRUE]
            ELSE [st EXCEPT
                    !.orders = Append(@, CreateOrder(
                                  ResolveTemplate(strategy, block.template, block.order),
                                  Len(@) + 1, pf, symbol, t)),
                    !.generated = Append(@, Len(st.orders) + 1)]
        RECURSIVE Symbols(_, _)
        Symbols(k, st) ==
            IF k > Len(strategy.symbols) THEN st
            ELSE Symbols(k + 1,
                    IF quotes[strategy.symbols[k]].ok
                    THEN Fired(strategy.exit, strategy.symbols[k],
                                   Fired(strategy.entry, strategy.symbols[k], st))
                    ELSE st)
        Logged(st) ==
            IF st.raised THEN [raised |-> TRUE, orders |-> book, log |-> <<>>]
            ELSE [raised |-> FALSE, orders |-> st.orders,
                  log |-> << [strategy |-> id, portfolio |-> pf, run_at |-> t,
                              generated_orders |-> st.generated,
                              status |-> IF st.generated # <<>> THEN "success"
                                         ELSE "skipped"] >>]
    IN  Logged(Symbols(1, [raised |-> FALSE, orders |-> book, generated |-> <<>>]))

\* StrategyRunner.run(): now = timezone.now(), the active strategies are read
RunnerRun ==
    /\ runner.pending = <<>>
    /\ runner.calls < MaxRunnerRuns
    /\ \E step \in market.steps : now' = now + step
    /\ runner' = [runner EXCEPT
                     !.pending = Ascending({i \in DOMAIN runner.strategies :
                                              runner.strategies[i].is_active}),
                     !.at = now', !.calls = @ + 1]
    /\ UNCHANGED <<orders, portfolios, positions, trades, settings, runs, pfqueue, queue,
                   market, last, algo_orders, cache>>

\* run's loop body for the next strategy: the gate, evaluate() for each portfolio
\* of the strategy's user, last_run_at; an exception of evaluate() ends run().
\* runner.quotes and runner.raised keep what the provider answered in this step
\* and whether it ended with an exception
RunStrategy ==
    LET id == Head(runner.pending)
        strategy == runner.strategies[id]
        owned == runner.portfolios[strategy.user]
        RECURSIVE Portfolios(_, _, _, _)
        Portfolios(k, st, quotes, feed) ==
            IF k > Len(owned) \/ st.raised THEN st
            ELSE Portfolios(k + 1,
                    [raised |-> Evaluate(strategy, id, owned[k], runner.at, st.orders,
                                         quotes[k], feed).raised,
                     orders |-> Evaluate(strategy, id, owned[k], runner.at, st.orders,
                                         quotes[k], feed).orders,
                     log |-> st.log \o Evaluate(strategy, id, owned[k], runner.at,
                                                st.orders, quotes[k], feed).log],
                    quotes, feed)
        Ran(st, quotes) ==
            /\ orders' = st.orders
            /\ runner' = [runner EXCEPT
                            !.log = st.log,
                            !.strategies[id].last_run_at =
                                IF st.raised THEN @ ELSE runner.at,
                            !.pending = IF st.raised THEN <<>> ELSE Tail(@),
                            !.quotes = quotes,
                            !.raised = st.raised]
    IN  /\ runner.pending # <<>>
        /\ IF ShouldRun(strategy, runner.at)
           THEN \E quotes \in [1..Len(owned) ->
                                 [{"AAPL", "MSFT"} -> market.quotes]],
                   feed \in market.feeds :
                   /\ \A k \in 1..Len(owned), s \in {"AAPL", "MSFT"} :
                         (\A j \in DOMAIN strategy.symbols : strategy.symbols[j] # s)
                            => quotes[k][s] = NoQuote
                   /\ Ran(Portfolios(1, [raised |-> FALSE, orders |-> orders,
                                         log |-> runner.log], quotes, feed), quotes)
           ELSE /\ orders' = orders
                /\ runner' = [runner EXCEPT !.pending = Tail(@), !.quotes = <<>>,
                                            !.raised = FALSE]
        /\ UNCHANGED <<portfolios, positions, trades, settings, now, runs, pfqueue, queue,
                       market, last, algo_orders, cache>>

\* the strategy of the runner's tests (a limit buy entry and a stop sell exit
\* from templates with inline overrides, each behind a price rule) for a user
\* with two portfolios, and its variants: the entry sized by quantity or by
\* quantity_pct, the entry rule always true or true from a price on, a second
\* symbol, a rule tree that is a group, an entry without template; with and
\* without a frequency and a last_run_at. A second strategy belongs to a user
\* without portfolios
RunnerScenarios ==
    LET Price(operator, value) ==
            [type |-> "rule", conditions |-> <<>>,
             condition |-> [NoCondition EXCEPT !.type = "price", !.operator = operator,
                                               !.value = value]]
        Group(type, nodes) == [type |-> type, condition |-> NoCondition, conditions |-> nodes]
        Templates ==
            [long_entry |-> [NoTemplate EXCEPT !.side = "buy", !.order_type = "limit",
                                               !.limit_price = Q(100), !.tif = "day"],
             long_exit |-> [NoTemplate EXCEPT !.side = "sell", !.order_type = "stop",
                                              !.stop_price = Q(90), !.tif = "gtc"]]
        Entry(rules, template, sizing) ==
            [rules |-> rules, template |-> template,
             order |-> IF template = "" THEN NoTemplate
                       ELSE IF sizing = "quantity"
                       THEN [NoTemplate EXCEPT !.limit_price = Q(105), !.quantity = Q(5)]
                       ELSE [NoTemplate EXCEPT !.limit_price = Q(105),
                                               !.quantity_pct = Q(10)]]
        Exit == [rules |-> Price("gte", Zero), template |-> "long_exit",
                 order |-> [NoTemplate EXCEPT !.stop_price = Q(95)]]
        Strategy(user, active, frequency, last_run_at, symbols, entry, exit) ==
            [user |-> user, is_active |-> active, frequency |-> frequency,
             last_run_at |-> last_run_at, symbols |-> symbols,
             order_templates |-> Templates, entry |-> entry, exit |-> exit]
        NoNode == [type |-> "", condition |-> NoCondition, conditions |-> <<>>]
        NoBlock == [rules |-> NoNode, template |-> "", order |-> NoTemplate]
        Book(frequency, last_run_at, symbols, entry, active, quotes) ==
            [quotes |-> quotes,
             runner |-> [NoRunner EXCEPT
                !.strategies = <<Strategy(1, TRUE, frequency, last_run_at, symbols, entry, Exit),
                                 Strategy(2, active, "1m", NoTime, <<"AAPL">>, NoBlock, NoBlock)>>,
                !.portfolios = << <<1, 2>>, <<>> >>]]
    IN  { Book(frequency, last_run_at, <<"AAPL">>,
               Entry(Price("gte", Zero), "long_entry", "quantity"), active, {Low, NoQuote}) :
            frequency \in {"", "1m", "5m", "30m"},
            last_run_at \in {NoTime, At(1, 10, 0, 0) - 280},
            active \in BOOLEAN }
        \cup
        { Book("1m", NoTime, <<"AAPL">>, entry, TRUE, {Low, High, NoQuote}) :
            entry \in {Entry(Price("gte", Q(15)), "long_entry", "quantity_pct"),
                       Entry(Group("and", <<Price("gte", Q(15)), Price("lte", Q(20))>>),
                             "", ""),
                       Entry(Group("or", <<>>), "long_entry", "quantity"),
                       NoBlock} }
        \cup
        { Book("1m", NoTime, <<"AAPL", "MSFT">>, entry, TRUE, {High, NoQuote}) :
            entry \in {Entry(Price("gte", Zero), "long_entry", "quantity"),
                       Entry(Price("gte", Q(15)), "long_entry", "quantity_pct")} }

RunnerSpec ==
    /\ \E sc \in RunnerScenarios :
          /\ Start(Scenario(<<>>, TwoPortfolios, Flat(TwoPortfolios), Free, sc.quotes,
                            {30, 60}, At(1, 10, 0, 0)))
          /\ runner = sc.runner
    /\ [][RunnerRun \/ RunStrategy]_vars

-----------------------------------------------------------------------------
(* The order API beside the runner and the engine *)

\* PaperOrderSerializer.validate(attrs) for a new order (no instance): TRUE
\* when no ValidationError is raised
Validate(data) ==
    LET limit_required_types ==
            {"limit", "limit_close", "limit_open", "stop_limit", "trailing_limit",
             "pegged_mid", "pegged_primary", "hidden_limit", "iceberg"}
        trailing == {"trailing_amount", "trailing_percent", "trailing_limit"}
        stop_required_types == {"stop", "stop_limit"} \cup trailing
    IN  /\ Truthy(data.quantity) \/ Truthy(data.notional)
        /\ ~(data.order_type \in limit_required_types /\ ~Truthy(data.limit_price))
        /\ ~(/\ data.order_type \in stop_required_types
             /\ ~Truthy(data.stop_price)
             /\ data.order_type \notin trailing)
        /\ ~(/\ data.order_type \in trailing
             /\ ~Truthy(data.trail_amount)
             /\ ~Truthy(data.trail_percent))
        /\ ~(/\ data.order_type = "iceberg"
             /\ Truthy(data.reserve_quantity)
             /\ Truthy(data.quantity)
             /\ Ge(data.reserve_quantity, data.quantity))
        /\ ~(data.order_type \in {"pegged_mid", "pegged_primary"}
             /\ ~Truthy(data.pegged_offset))
        /\ ~(data.tif = "gtd" /\ data.tif_date = NoTime)
        /\ ~(/\ data.condition.type \notin {"", "none"}
             /\ data.condition = [NoCondition EXCEPT !.type = data.condition.type])

\* bound: rows of the orders table up to which the API is called
MaxOrders == 1

\* a POST of an order: a buy of one of four types, whole or lacking its size
\* or one of its prices; what validate() lets through is created
SubmitOrder ==
    LET Posted(ty) == Order(Len(orders) + 1, ty, "buy", "day", Whole, now)
        Lacking(o) == {o, [o EXCEPT !.quantity = None], [o EXCEPT !.limit_price = None],
                       [o EXCEPT !.stop_price = None], [o EXCEPT !.trail_amount = None]}
    IN  /\ runs = 0
        /\ runner.calls = 0
        /\ Len(orders) < MaxOrders
        /\ \E ty \in {"market", "limit", "stop", "trailing_limit"} :
             \E data \in Lacking(Posted(ty)) :
                /\ Validate(data)
                /\ orders' = Append(orders, [data EXCEPT !.created_at = now])
        /\ UNCHANGED <<portfolios, positions, trades, settings, now, runs, pfqueue, queue,
                       market, last, algo_orders, runner, cache>>

\* the API, then the strategy runner, then the engine on one book: the strategy
\* of the runner's tests with a frequency of five minutes
IntakeSpec ==
    /\ \E sc \in RunnerScenarios :
          /\ sc.runner.strategies[1].frequency = "5m"
          /\ sc.runner.strategies[1].last_run_at = NoTime
          /\ ~sc.runner.strategies[2].is_active
          /\ Start(Scenario(<<>>, TwoPortfolios, Flat(TwoPortfolios), Free, sc.quotes,
                            {60}, At(1, 10, 0, 0)))
          /\ runner = sc.runner
    /\ [][SubmitOrder \/ (runs = 0 /\ RunnerRun) \/ RunStrategy
           \/ (runner.pending = <<>> /\ Next)]_vars

-----------------------------------------------------------------------------
(* Properties *)

\* C1 (P1, ledger identity), as stated: once a fill has been applied to a
\* portfolio, its stored equity is its stored cash_balance plus the sum of the
\* stored market_value of its positions, whatever the order type, the side and
\* the fills before
C1_LedgerIdentity ==
    \A k \in DOMAIN trades :
        portfolios[trades[k].portfolio].equity =
            Add(portfolios[trades[k].portfolio].cash_balance,
                SumField(positions, PositionKeys(positions, trades[k].portfolio),
                         "market_value"))

\* C1, amended: the stored equity is within 0.01, the rounding of the equity
\* and cash_balance columns, of the stored cash_balance plus the sum of the stored
\* market_value of the positions
C1_LedgerIdentityRounded ==
    \A k \in DOMAIN trades :
        LET gap == Sub(portfolios[trades[k].portfolio].equity,
                       Add(portfolios[trades[k].portfolio].cash_balance,
                           SumField(positions,
                                    PositionKeys(positions, trades[k].portfolio),
                                    "market_value")))
        IN  Le(gap, Norm(1, 100)) /\ Ge(gap, Norm(-1, 100))

\* two orders of one portfolio filled, with fees and slippage, in two symbols
C1_Witness ==
    /\ settings.flat_commission # Zero
    /\ \E j, k \in DOMAIN trades :
          /\ trades[j].portfolio = trades[k].portfolio
          /\ trades[j].symbol # trades[k].symbol

\* C2 (P2, quantity conservation): no step lowers the filled_quantity of an
\* order, and after every step the filled_quantity of an order is at most its
\* resolved total quantity (nothing is filled while no quantity is resolved)
C2_QuantityConservation ==
    [][\A i \in DOMAIN orders :
          /\ Le(orders[i].filled_quantity, orders'[i].filled_quantity)
          /\ IF IsNone(orders'[i].quantity)
             THEN orders'[i].filled_quantity = Zero
             ELSE Le(orders'[i].filled_quantity, orders'[i].quantity)]_vars

\* an order sized by a notional was filled up to its resolved quantity in two
\* fills or more
C2_Witness ==
    \E i \in DOMAIN orders :
        /\ Truthy(orders[i].notional)
        /\ orders[i].filled_quantity = orders[i].quantity
        /\ Cardinality({k \in DOMAIN trades : trades[k].order = i}) >= 2

\* C3 (one fills, the others are canceled): in the step in which a child fills,
\* fully or partly, whose parent is a bracket, otoco or oco order or whose role
\* is tp or sl, every sibling that was not filled or canceled becomes canceled,
\* and the last event of the parent's notes is a chain_action event with action
\* cancel and the number of siblings canceled
C3_OneFillsCancelsOthers ==
    [][Len(trades') > Len(trades) =>
         LET child == trades'[Len(trades')].order
             parent == orders[child].parent
             others == {s \in DOMAIN orders :
                           /\ s # child
                           /\ orders[s].parent = parent
                           /\ orders[s].status \notin {"filled", "canceled"}}
             events == orders'[parent].notes.events
         IN  (/\ parent # 0
              /\ \/ orders[parent].order_type \in {"bracket", "otoco", "oco"}
                 \/ orders[child].child_role \in {"tp", "sl"})
             => /\ \A s \in others : orders'[s].status = "canceled"
                /\ events # <<>>
                /\ events[Len(events)].event = "chain_action"
                /\ events[Len(events)].action = "cancel"
                /\ events[Len(events)].count = Cardinality(others)]_vars

\* C4 (P4, FOK/IOC terminal): when an ioc or fok order is processed in a pass in
\* which it is eligible (not expired, inside its hours and its session window,
\* quote available, condition satisfied) and is not completely filled by the
\* pass, it is canceled after the step (so that pass is its only eligible one);
\* and a canceled ioc or fok order never becomes new or working again
C4_ImmediateOrCancelTerminal ==
    [][/\ (/\ last' # last
           /\ last'.outcome \in {"fill", "nofill"}
           /\ orders[last'.id].tif \in {"ioc", "fok"}
           /\ orders[last'.id].order_type
                  \in {"market_open", "market_close", "limit_open", "limit_close"}
              => WithinWindow(now, Target(orders[last'.id].order_type))
           /\ \/ IsNone(orders'[last'.id].quantity)
              \/ Lt(orders'[last'.id].filled_quantity, orders'[last'.id].quantity))
          => orders'[last'.id].status = "canceled"
       /\ \A i \in DOMAIN orders :
              orders[i].tif \in {"ioc", "fok"} /\ orders[i].status = "canceled"
              => orders'[i].status \notin {"new", "working"}]_vars

\* C5 (FOK degraded fill): when the handler of a fok order fills less than what
\* remained of the order, the step creates the trade for that slice, raises
\* filled_quantity by it (both as their columns of six decimal places store
\* them) and leaves the order canceled; and no step changes the status or the
\* filled_quantity of a canceled fok order
C5_FokDegradedFill ==
    [][/\ (/\ last' # last
           /\ last'.outcome = "fill"
           /\ orders[last'.id].tif = "fok"
           /\ Lt(last'.result.quantity,
                 Sub(orders'[last'.id].quantity, orders[last'.id].filled_quantity)))
          => /\ Len(trades') = Len(trades) + 1
             /\ trades'[Len(trades')].order = last'.id
             /\ trades'[Len(trades')].quantity = Quantize(last'.result.quantity, 6)
             /\ Gt(trades'[Len(trades')].quantity, Zero)
             /\ orders'[last'.id].filled_quantity =
                    Quantize(Add(orders[last'.id].filled_quantity, last'.result.quantity), 6)
             /\ Gt(orders'[last'.id].filled_quantity, orders[last'.id].filled_quantity)
             /\ orders'[last'.id].status = "canceled"
       /\ \A i \in DOMAIN orders :
              orders[i].tif = "fok" /\ orders[i].status = "canceled"
              => /\ orders'[i].status = "canceled"
                 /\ orders'[i].filled_quantity = orders[i].filled_quantity]_vars

\* a fok order that was partly filled and canceled, two runs later
C5_Witness ==
    /\ last.outcome = "fill"
    /\ orders[last.id].tif = "fok"
    /\ orders[last.id].status = "canceled"
    /\ Gt(orders[last.id].filled_quantity, Zero)
    /\ Lt(orders[last.id].filled_quantity, orders[last.id].quantity)
    /\ runs >= last.run + 2

\* C6 (P3, reserve cap): the trade a step creates for an order with a reserve
\* quantity R > 0, whatever its type, has a quantity of at most R and of at most
\* what remained of the order before the step
C6_ReserveCap ==
    [][Len(trades') > Len(trades) =>
         LET trade == trades'[Len(trades')]
         IN  Gt(orders[trade.order].reserve_quantity, Zero)
             => /\ Le(trade.quantity, orders[trade.order].reserve_quantity)
                /\ Le(trade.quantity,
                      Sub(orders'[trade.order].quantity,
                          orders[trade.order].filled_quantity))]_vars

\* a volume-weighted order whose first slice, half of its quantity, was cut to
\* the reserve quantity, and which has been filled again since
C6_Witness ==
    /\ Len(trades) >= 2
    /\ trades[2].order = trades[1].order
    /\ orders[trades[1].order].order_type = "algo_vwap"
    /\ trades[1].quantity = orders[trades[1].order].reserve_quantity
    /\ Gt(Mul(orders[trades[1].order].quantity,
              orders[trades[1].order].algo_params.participation),
          orders[trades[1].order].reserve_quantity)

\* C7 (iceberg progression), as stated: a step that processes a limit order with
\* quantity Q, reserve quantity R < Q and quantity left, at a quote price that
\* satisfies its limit, fills min(R, remaining) at the limit price; the order is
\* part_filled while quantity remains and filled, with filled_quantity = Q, at
\* its ceil(Q/R)-th fill
C7_IcebergProgression ==
    [][(/\ last' # last
        /\ last'.outcome \in {"fill", "nofill"}
        /\ orders[last'.id].order_type = "limit"
        /\ Gt(orders[last'.id].reserve_quantity, Zero)
        /\ Lt(orders[last'.id].reserve_quantity, orders[last'.id].quantity)
        /\ Lt(orders[last'.id].filled_quantity, orders[last'.id].quantity)
        /\ ShouldFill(orders[last'.id], last'.quote.price))
       => LET id == last'.id
              slice == Min(orders[id].reserve_quantity,
                           Sub(orders[id].quantity, orders[id].filled_quantity))
              passes == Cardinality({k \in DOMAIN trades' : trades'[k].order = id})
          IN  /\ last'.outcome = "fill"
              /\ last'.result.quantity = slice
              /\ last'.result.price = orders[id].limit_price
              /\ Len(trades') = Len(trades) + 1
              /\ trades'[Len(trades')].order = id
              /\ trades'[Len(trades')].quantity = slice
              /\ orders'[id].filled_quantity = Add(orders[id].filled_quantity, slice)
              /\ IF Lt(orders'[id].filled_quantity, orders[id].quantity)
                 THEN orders'[id].status = "part_filled"
                 ELSE /\ orders'[id].status = "filled"
                      /\ orders'[id].filled_quantity = orders[id].quantity
                      /\ Ge(Mul(Q(passes), orders[id].reserve_quantity),
                            orders[id].quantity)
                      /\ Lt(Mul(Q(passes - 1), orders[id].reserve_quantity),
                            orders[id].quantity)]_vars

\* C7, amended: the same for limit orders whose time in force is neither fok nor
\* ioc; a fok order is canceled by its first partial fill
C7_IcebergProgressionOpenEnded ==
    [][(/\ last' # last
        /\ last'.outcome \in {"fill", "nofill"}
        /\ orders[last'.id].order_type = "limit"
        /\ orders[last'.id].tif \notin {"ioc", "fok"}
        /\ Gt(orders[last'.id].reserve_quantity, Zero)
        /\ Lt(orders[last'.id].reserve_quantity, orders[last'.id].quantity)
        /\ Lt(orders[last'.id].filled_quantity, orders[last'.id].quantity)
        /\ ShouldFill(orders[last'.id], last'.quote.price))
       => LET id == last'.id
              slice == Min(orders[id].reserve_quantity,
                           Sub(orders[id].quantity, orders[id].filled_quantity))
              passes == Cardinality({k \in DOMAIN trades' : trades'[k].order = id})
          IN  /\ last'.outcome = "fill"
              /\ last'.result.quantity = slice
              /\ last'.result.price = orders[id].limit_price
              /\ Len(trades') = Len(trades) + 1
              /\ trades'[Len(trades')].order = id
              /\ trades'[Len(trades')].quantity = slice
              /\ orders'[id].filled_quantity = Add(orders[id].filled_quantity, slice)
              /\ IF Lt(orders'[id].filled_quantity, orders[id].quantity)
                 THEN orders'[id].status = "part_filled"
                 ELSE /\ orders'[id].status = "filled"
                      /\ orders'[id].filled_quantity = orders[id].quantity
                      /\ Ge(Mul(Q(passes), orders[id].reserve_quantity),
                            orders[id].quantity)
                      /\ Lt(Mul(Q(passes - 1), orders[id].reserve_quantity),
                            orders[id].quantity)]_vars

\* a day or gtc limit order of 5 with reserve 2, filled by its third fill
C7_Witness ==
    /\ last.outcome = "fill"
    /\ orders[last.id].order_type = "limit"
    /\ orders[last.id].tif \in {"day", "gtc"}
    /\ orders[last.id].status = "filled"
    /\ orders[last.id].quantity = Q(5)
    /\ orders[last.id].reserve_quantity = Q(2)
    /\ Cardinality({k \in DOMAIN trades : trades[k].order = last.id}) = 3

C9_AlgoScheduleGate ==
    [][(/\ last' # last
        /\ last'.outcome \in {"fill", "nofill"}
        /\ orders[last'.id].order_type \in {"algo_twap", "algo_vwap", "algo_pov"})
       => LET id == last'.id
              params == orders[id].algo_params
              fills == orders[id].notes.algo_events
              interval ==
                  IF orders[id].order_type = "algo_twap" /\ ~IsNone(params.interval_minutes)
                  THEN Mul(params.interval_minutes, Q(60))
                  ELSE IF ~IsNone(params.interval_seconds) THEN params.interval_seconds
                  ELSE Q(60)
          IN  IF orders[id].algo_next_run_at # NoTime /\ now < orders[id].algo_next_run_at
              THEN /\ last'.outcome = "nofill"
                   /\ trades' = trades
                   /\ orders'[id].filled_quantity = orders[id].filled_quantity
                   /\ orders'[id].algo_slice_index = orders[id].algo_slice_index
                   /\ orders'[id].algo_next_run_at = orders[id].algo_next_run_at
              ELSE /\ Q(orders'[id].algo_next_run_at - now) = interval
                   /\ last'.outcome = "fill" /\ fills # <<>>
                      => Ge(Q(now - fills[Len(fills)].timestamp), interval)]_vars

\* C9, amended: the same with the interval the handler uses: the configured
\* interval in whole seconds, but at least 10 seconds when it comes from
\* interval_minutes and at least 5 seconds when it comes from interval_seconds
C9_AlgoScheduleGateFloored ==
    [][(/\ last' # last
        /\ last'.outcome \in {"fill", "nofill"}
        /\ orders[last'.id].order_type \in {"algo_twap", "algo_vwap", "algo_pov"})
       => LET id == last'.id
              params == orders[id].algo_params
              fills == orders[id].notes.algo_events
              Floor(x) == x.n \div x.d
              interval ==
                  IF orders[id].order_type = "algo_twap" /\ ~IsNone(params.interval_minutes)
                  THEN Max(Q(10), Q(Floor(Mul(params.interval_minutes, Q(60)))))
                  ELSE IF ~IsNone(params.interval_seconds)
                  THEN Max(Q(5), Q(Floor(params.interval_seconds)))
                  ELSE Q(60)
          IN  IF orders[id].algo_next_run_at # NoTime /\ now < orders[id].algo_next_run_at
              THEN /\ last'.outcome = "nofill"
                   /\ trades' = trades
                   /\ orders'[id].filled_quantity = orders[id].filled_quantity
                   /\ orders'[id].algo_slice_index = orders[id].algo_slice_index
                   /\ orders'[id].algo_next_run_at = orders[id].algo_next_run_at
              ELSE /\ Q(orders'[id].algo_next_run_at - now) = interval
                   /\ last'.outcome = "fill" /\ fills # <<>>
                      => Ge(Q(now - fills[Len(fills)].timestamp), interval)]_vars

\* a time-weighted order with interval_minutes = 1 that was filled, was run again
\* 30 seconds later, and was filled again 65 seconds after that
C9_Witness ==
    /\ last.outcome = "fill"
    /\ orders[last.id].order_type = "algo_twap"
    /\ orders[last.id].algo_params.interval_minutes = Q(1)
    /\ runs = 3
    /\ Len(orders[last.id].notes.algo_events) = 2
    /\ orders[last.id].notes.algo_events[2].timestamp
           - orders[last.id].notes.algo_events[1].timestamp = 95
    /\ orders[last.id].algo_slice_index = 2
    /\ orders[last.id].algo_next_run_at = now + 60

\* C10 (algo slice sizing): a step that hands a due sliced order with
\* remaining = quantity - filled_quantity > 0 to its handler fills, at the
\* quote's price, remaining / max(slices - algo_slice_index, 1) for algo_twap,
\* remaining x participation for algo_vwap and quote.volume x participation for
\* algo_pov, cut to remaining and to reserve_quantity when set; it fills nothing
\* when that quantity is not positive (slices is 10 and participation 0.1 when
\* not configured); the trade row keeps that quantity to six decimal places
C10_AlgoSliceSizing ==
    [][(/\ last' # last
        /\ last'.outcome \in {"fill", "nofill"}
        /\ orders[last'.id].order_type \in {"algo_twap", "algo_vwap", "algo_pov"}
        /\ \/ orders[last'.id].algo_next_run_at = NoTime
           \/ now >= orders[last'.id].algo_next_run_at
        /\ ~IsNone(orders'[last'.id].quantity)
        /\ Gt(orders'[last'.id].quantity, orders[last'.id].filled_quantity))
       => LET id == last'.id
              params == orders[id].algo_params
              \* the quantity the resolution returns: the one of the row, or
              \* notional / price when this step resolves it
              total == IF IsNone(orders[id].quantity)
                       THEN Div(orders[id].notional, last'.quote.price)
                       ELSE orders[id].quantity
              remaining == Sub(total, orders[id].filled_quantity)
              slices == IF IsNone(params.slices) THEN Q(10) ELSE params.slices
              participation == IF IsNone(params.participation) THEN Norm(1, 10)
                               ELSE params.participation
              volume == IF IsNone(last'.quote.volume) THEN Zero ELSE last'.quote.volume
              target ==
                  CASE orders[id].order_type = "algo_twap" ->
                          Div(remaining,
                              Max(Sub(slices, Q(orders[id].algo_slice_index)), Q(1)))
                    [] orders[id].order_type = "algo_vwap" -> Mul(remaining, participation)
                    [] orders[id].order_type = "algo_pov" -> Mul(volume, participation)
              capped == IF Gt(orders[id].reserve_quantity, Zero)
                        THEN Min(Min(target, remaining), orders[id].reserve_quantity)
                        ELSE Min(target, remaining)
          IN  IF Gt(capped, Zero)
              THEN /\ last'.outcome = "fill"
                   /\ last'.result.quantity = capped
                   /\ last'.result.price = last'.quote.price
                   /\ Len(trades') = Len(trades) + 1
                   /\ trades'[Len(trades')].order = id
                   /\ trades'[Len(trades')].quantity = Quantize(capped, 6)
              ELSE last'.outcome = "nofill" /\ trades' = trades]_vars

\* a participation order of 10 at half of a volume of 8: two slices of 4 and a
\* last one cut to the 2 that remained
C10_Witness ==
    /\ last.outcome = "fill"
    /\ orders[last.id].order_type = "algo_pov"
    /\ orders[last.id].status = "filled"
    /\ orders[last.id].quantity = Q(10)
    /\ Len(trades) = 3
    /\ trades[1].quantity = Q(4) /\ trades[2].quantity = Q(4) /\ trades[3].quantity = Q(2)
    /\ trades[1].price = last.quote.price

\* C11 (expiry gate): a step that processes an open order with tif day created
\* on a local date before that of the pass, or with tif gtd and a tif_date before
\* the pass time, leaves the order expired, creates no trade and leaves the
\* order's filled_quantity as it was, whatever the order's type, the session
\* hours, the quote and the condition
C11_ExpiryGate ==
    [][(/\ last' # last
        /\ orders[last'.id].status \in {"new", "working", "part_filled"}
        /\ \/ /\ orders[last'.id].tif = "day"
              /\ orders[last'.id].created_at \div 86400 < now \div 86400
           \/ /\ orders[last'.id].tif = "gtd"
              /\ orders[last'.id].tif_date # NoTime
              /\ orders[last'.id].tif_date < now)
       => /\ orders'[last'.id].status = "expired"
          /\ trades' = trades
          /\ orders'[last'.id].filled_quantity = orders[last'.id].filled_quantity
          /\ portfolios' = portfolios
          /\ positions' = positions]_vars

\* a gtd order that was partly filled before its tif_date and expired after it
C11_Witness ==
    /\ last.outcome = "expired"
    /\ orders[last.id].status = "expired"
    /\ orders[last.id].tif = "gtd"
    /\ Gt(orders[last.id].filled_quantity, Zero)
    /\ Len(trades) = 1

\* C12 (P6, average price), as stated: a position that started from nothing and
\* has only been bought has an avg_price equal to the sum of quantity x price
\* over its trades divided by the sum of their quantities
C12_AveragePrice ==
    \A key \in DOMAIN positions :
        LET fills == {k \in DOMAIN trades : /\ trades[k].portfolio = key[1]
                                            /\ trades[k].symbol = key[2]}
            RECURSIVE Sum(_, _)
            Sum(ks, priced) ==
                IF ks = {} THEN Zero
                ELSE LET k == CHOOSE x \in ks : TRUE
                     IN  Add(IF priced THEN Mul(trades[k].quantity, trades[k].price)
                             ELSE trades[k].quantity,
                             Sum(ks \ {k}, priced))
            Gap(a, b) == IF Ge(a, b) THEN Sub(a, b) ELSE Sub(b, a)
        IN  (/\ positions[key].exists
             /\ fills # {}
             /\ \A k \in fills : trades[k].side = "buy"
             /\ positions[key].quantity = Sum(fills, FALSE))
            => positions[key].avg_price = Div(Sum(fills, TRUE), Sum(fills, FALSE))

\* C12, amended: the avg_price of such a position is that quotient up to the
\* rounding of the column: it is off by at most 0.0001 for each of its fills
C12_AveragePriceRounded ==
    \A key \in DOMAIN positions :
        LET fills == {k \in DOMAIN trades : /\ trades[k].portfolio = key[1]
                                            /\ trades[k].symbol = key[2]}
            RECURSIVE Sum(_, _)
            Sum(ks, priced) ==
                IF ks = {} THEN Zero
                ELSE LET k == CHOOSE x \in ks : TRUE
                     IN  Add(IF priced THEN Mul(trades[k].quantity, trades[k].price)
                             ELSE trades[k].quantity,
                             Sum(ks \ {k}, priced))
            Gap(a, b) == IF Ge(a, b) THEN Sub(a, b) ELSE Sub(b, a)
        IN  (/\ positions[key].exists
             /\ fills # {}
             /\ \A k \in fills : trades[k].side = "buy"
             /\ positions[key].quantity = Sum(fills, FALSE))
            => Le(Gap(positions[key].avg_price,
                      Div(Sum(fills, TRUE), Sum(fills, FALSE))),
                  Norm(Cardinality(fills), 10000))

\* a position of 7 bought in three fills at 14, 14 and 16: its avg_price is
\* 14.2857, the column's value nearest to 100/7
C12_Witness ==
    /\ Len(trades) = 3
    /\ positions[<<1, "AAPL">>].quantity = Q(7)
    /\ positions[<<1, "AAPL">>].avg_price = Norm(142857, 10000)
    /\ trades[1].price = Q(14) /\ trades[2].price = Q(14) /\ trades[3].price = Q(16)

\* C13 (P7, idempotent quantity resolution), as stated: the step that first
\* resolves the quantity of an order sized by notional stores
\* notional / quote price on the order; once an order has a quantity no step
\* changes it, and a fill of the order is reckoned from that stored quantity
C13_IdempotentResolution ==
    [][\A i \in DOMAIN orders :
          /\ (IsNone(orders[i].quantity) /\ ~IsNone(orders'[i].quantity))
             => /\ Truthy(orders[i].notional)
                /\ last'.id = i
                /\ orders'[i].quantity = Div(orders[i].notional, last'.quote.price)
          /\ ~IsNone(orders[i].quantity)
             => /\ orders'[i].quantity = orders[i].quantity
                /\ (last' # last /\ last'.id = i /\ last'.outcome = "fill")
                   => Add(last'.result.quantity, last'.result.remaining) =
                          Sub(orders[i].quantity, orders[i].filled_quantity)]_vars

\* C13, amended: the same, with the stored quantity being notional / quote price
\* rounded to the six decimal places of the column
C13_IdempotentResolutionRounded ==
    [][\A i \in DOMAIN orders :
          /\ (IsNone(orders[i].quantity) /\ ~IsNone(orders'[i].quantity))
             => /\ Truthy(orders[i].notional)
                /\ last'.id = i
                /\ LET exact == Div(orders[i].notional, last'.quote.price)
                       off == Sub(orders'[i].quantity, exact)
                   IN  /\ 1000000 % orders'[i].quantity.d = 0
                       /\ Le(off, Norm(1, 2000000))
                       /\ Ge(off, Norm(-1, 2000000))
          /\ ~IsNone(orders[i].quantity)
             => /\ orders'[i].quantity = orders[i].quantity
                /\ (last' # last /\ last'.id = i /\ last'.outcome = "fill")
                   => Add(last'.result.quantity, last'.result.remaining) =
                          Sub(orders[i].quantity, orders[i].filled_quantity)]_vars

\* an order for a notional of 50 that resolved to 3.571429 at the price 14 and was
\* filled again, from that quantity, at the price 16
C13_Witness ==
    /\ last.outcome = "fill"
    /\ last.quote.price = Q(16)
    /\ orders[last.id].notional = Q(50)
    /\ orders[last.id].quantity = Norm(3571429, 1000000)
    /\ Len(trades) >= 2
    /\ trades[1].price = Q(14)

\* C14 (P8, fail-open conditions): a call in which the data the condition of the
\* order needs was unavailable (a missing threshold of a price, indicator or
\* volume condition, a missing or unparsable timestamp, a null indicator value,
\* a failed history fetch, a failed quote fetch for a compared symbol, a missing
\* volume, a missing child list) finds the condition satisfied: it neither
\* returns at the condition nor raises
C14_FailOpen ==
    LET c == last.prior.condition
        Fetches(symbol) ==
            symbol \notin {"", last.prior.symbol} /\ ~last.feed.quotes[symbol].ok
        Unavailable ==
            CASE c.type = "price" -> IsNone(c.value)
              [] c.type = "time" -> c.timestamp \in {NoTime, Unparsable}
              [] c.type = "indicator" ->
                    \/ IsNone(c.value)
                    \/ c.indicator # "" /\ last.feed.history # "ok"
              [] c.type = "cross_symbol" ->
                    Fetches(c.symbol) \/ Fetches(c.compare_symbol)
              [] c.type = "volume" ->
                    \/ IsNone(c.value)
                    \/ c.basis = "average" /\ last.feed.history # "ok"
                    \/ c.basis # "average" /\ IsNone(last.quote.volume)
              [] c.type \in {"and_group", "or_group"} -> c.conditions = <<>>
              [] OTHER -> FALSE
    IN  (last.outcome \in {"condition", "raised"}) => ~Unavailable

\* C15 (no double fill under racing invocations): however the calls of the two
\* tasks on an open order interleave, the quantities of the trades of the order
\* never add up to more than the order's total quantity
C15_NoDoubleFill ==
    LET RECURSIVE Traded(_, _)
        Traded(k, i) ==
            IF k = 0 THEN Zero
            ELSE IF trades[k].order = i THEN Add(trades[k].quantity, Traded(k - 1, i))
            ELSE Traded(k - 1, i)
    IN  \A i \in DOMAIN orders :
            ~IsNone(orders[i].quantity) => Le(Traded(Len(trades), i), orders[i].quantity)

\* C16 (atomic fill application): a step in which a statement of _apply_fill
\* fails leaves no trade of that fill, and leaves every position, the status,
\* filled_quantity and average_fill_price of every order (the order's own, its
\* parent's, its children's) and the cash_balance, equity, realized_pnl and
\* unrealized_pnl of every portfolio as they were before the fill
C16_AtomicFill ==
    [][(last' # last /\ last'.outcome = "raised" /\ last'.result.filled)
       => /\ trades' = trades
          /\ positions' = positions
          /\ portfolios' = portfolios
          /\ \A i \in DOMAIN orders :
                /\ orders'[i].status = orders[i].status
                /\ orders'[i].filled_quantity = orders[i].filled_quantity
                /\ orders'[i].average_fill_price = orders[i].average_fill_price]_vars

\* the fill of a take-profit child failed at the last statement, the save of the
\* portfolio, after the trade, the position, the order and its siblings were
\* written
C16_Witness ==
    /\ last.outcome = "raised"
    /\ last.result.filled
    /\ last.feed.fault = 5
    /\ orders[last.id].parent # 0
    /\ orders[last.id].child_role = "tp"
    /\ orders[last.id].status = "working"
    /\ trades = <<>>

\* C17 (per-order isolation): a step in which the processing of an order fails
\* leaves the orders that follow it in its portfolio, and the portfolios that
\* follow, to be processed in the same pass
C17_PerOrderIsolation ==
    [][(queue # <<>> /\ last' # last /\ last'.outcome = "raised")
       => queue' = Tail(queue) /\ pfqueue' = pfqueue]_vars

\* C18 (cross-portfolio isolation): a step that processes an order of a portfolio,
\* whether its fill is applied or fails, leaves the row, the positions and the
\* trades of every other portfolio as they were; and from a state in which no
\* pass is under way, processing an open order of one portfolio and an open
\* order of another gives every portfolio the same row, positions and trades in
\* either order
C18_CrossPortfolioIsolation ==
    [][LET Of(rows, b) == SelectSeq(rows, LAMBDA tr : tr.portfolio = b)
           Ledger(db, b) ==
               [row |-> db.portfolios[b],
                positions |-> [k \in {x \in DOMAIN db.positions : x[1] = b} |->
                                  db.positions[k]],
                trades |-> Of(db.trades, b)]
           After(db, i, quote, feed) ==
               ProcessOrderInstance([order |-> db.orders[i],
                                     pf |-> db.portfolios[db.orders[i].portfolio]],
                                    db, now, quote, feed).db
           Both(i, j, qi, qj, fi, fj) == After(After(Database, i, qi, fi), j, qj, fj)
           Ledgers(db) == [b \in DOMAIN portfolios |-> Ledger(db, b)]
           Commutes(i, j) ==
               \A qi, qj \in market.quotes, fi, fj \in market.feeds :
                   Ledgers(Both(i, j, qi, qj, fi, fj)) =
                       Ledgers(Both(j, i, qj, qi, fj, fi))
       IN  /\ (last' # last /\ last'.id # 0)
              => \A b \in DOMAIN portfolios \ {orders[last'.id].portfolio} :
                    Ledger([portfolios |-> portfolios', positions |-> positions',
                            trades |-> trades'], b) = Ledger(Database, b)
           /\ Idle
              => \A i, j \in DOMAIN orders :
                    (/\ orders[i].portfolio < orders[j].portfolio
                     /\ orders[i].status \in OpenStatuses
                     /\ orders[j].status \in OpenStatuses) => Commutes(i, j)]_vars

\* an order of the second portfolio was filled after one of the first, and both
\* portfolios have trades
C18_Witness ==
    /\ last.outcome = "fill"
    /\ orders[last.id].portfolio = 2
    /\ \E j, k \in DOMAIN trades : trades[j].portfolio = 1 /\ trades[k].portfolio = 2

\* C19 (terminal states are absorbing): no step changes the status or the
\* filled_quantity of an order whose status is filled, canceled, expired or
\* rejected
C19_TerminalAbsorbing ==
    [][\A i \in DOMAIN orders :
          orders[i].status \in {"filled", "canceled", "expired", "rejected"}
          => /\ orders'[i].status = orders[i].status
             /\ orders'[i].filled_quantity = orders[i].filled_quantity]_vars


\* C20 (strategy frequency gate): run() passes over a strategy exactly when it
\* has a frequency among 1m, 5m, 15m, 1h, 1d, a last_run_at, and the time of
\* the pass is less than that interval after last_run_at; then nothing is
\* evaluated, generated or saved. Any other strategy is evaluated once for
\* each portfolio of its user and its last_run_at becomes the time of the
\* pass, so that two evaluations of a strategy with such a frequency for the
\* same portfolio are never closer together than the interval.
C20_FrequencyGate ==
    [][LET id == Head(runner.pending)
           strategy == runner.strategies[id]
           Known == {"1m", "5m", "15m", "1h", "1d"}
           Interval(f) == IF f = "1m" THEN 60 ELSE IF f = "5m" THEN 300
                          ELSE IF f = "15m" THEN 900 ELSE IF f = "1h" THEN 3600 ELSE 86400
           gated == /\ strategy.frequency \in Known
                    /\ strategy.last_run_at # NoTime
                    /\ runner.at - strategy.last_run_at < Interval(strategy.frequency)
           Rows(log, p) == {k \in DOMAIN log : log[k].strategy = id /\ log[k].portfolio = p}
       IN  (runner.pending # <<>> /\ runner' # runner) =>
              /\ gated => /\ runner'.log = runner.log
                          /\ orders' = orders
                          /\ runner'.strategies = runner.strategies
              /\ ~gated => /\ runner'.strategies[id].last_run_at = runner.at
                           /\ \A p \in 1..Len(portfolios) :
                                 Cardinality(Rows(runner'.log, p)) =
                                    Cardinality(Rows(runner.log, p))
                                    + (IF \E k \in DOMAIN runner.portfolios[strategy.user] :
                                             runner.portfolios[strategy.user][k] = p
                                       THEN 1 ELSE 0)
                           /\ \A k \in DOMAIN runner'.log \ DOMAIN runner.log :
                                 runner'.log[k].run_at = runner.at
              /\ \A j, k \in DOMAIN runner'.log :
                    (/\ j < k
                     /\ runner'.log[j].strategy = runner'.log[k].strategy
                     /\ runner'.log[j].portfolio = runner'.log[k].portfolio
                     /\ runner'.strategies[runner'.log[k].strategy].frequency \in Known)
                    => runner'.log[k].run_at - runner'.log[j].run_at
                         >= Interval(runner'.strategies[runner'.log[k].strategy].frequency)
              /\ \A k \in DOMAIN orders' \ DOMAIN orders :
                    /\ ~gated
                    /\ orders'[k].created_at = runner.at
      ]_vars

\* C21 (strategy order generation and audit log): in every evaluate() of a
\* run, for every symbol whose quote was fetched each of the entry and exit
\* trees that is true and resolves to a non-empty template creates exactly one
\* order of status new for the portfolio and symbol, a symbol without quote
\* creates none, and exactly one StrategyRunLog row is written for the
\* portfolio, with the ids of exactly these orders and status success when
\* there is one and skipped otherwise.
C21_OrdersAndLog ==
    [][LET id == Head(runner.pending)
           strategy == runner.strategies[id]
           owned == runner.portfolios[strategy.user]
           Fires(block, s, k) ==
               /\ EvaluateNode(block.rules, s, runner'.quotes[k][s], runner.at, Quiet) = "true"
               /\ ResolveTemplate(strategy, block.template, block.order) # NoTemplate
           Due(s, k) ==
               IF ~runner'.quotes[k][s].ok THEN 0
               ELSE (IF Fires(strategy.entry, s, k) THEN 1 ELSE 0)
                    + (IF Fires(strategy.exit, s, k) THEN 1 ELSE 0)
           Created(pf) == {j \in DOMAIN orders' \ DOMAIN orders : orders'[j].portfolio = pf}
           Rows(pf) == {j \in DOMAIN runner'.log \ DOMAIN runner.log :
                          runner'.log[j].strategy = id /\ runner'.log[j].portfolio = pf}
       IN  (runner.pending # <<>> /\ runner' # runner /\ runner'.quotes # <<>>) =>
              \A k \in DOMAIN owned :
                 /\ \A j \in Created(owned[k]) : orders'[j].status = "new"
                 /\ \A s \in {"AAPL", "MSFT"} :
                       Cardinality({j \in Created(owned[k]) : orders'[j].symbol = s}) =
                          (IF \E n \in DOMAIN strategy.symbols : strategy.symbols[n] = s
                           THEN Due(s, k) ELSE 0)
                 /\ Cardinality(Rows(owned[k])) = 1
                 /\ \A j \in Rows(owned[k]) :
                       /\ {runner'.log[j].generated_orders[n] :
                              n \in DOMAIN runner'.log[j].generated_orders} = Created(owned[k])
                       /\ Len(runner'.log[j].generated_orders) = Cardinality(Created(owned[k]))
                       /\ runner'.log[j].status =
                             (IF Created(owned[k]) # {} THEN "success" ELSE "skipped")
      ]_vars

\* C22 (template resolution): the order generated for a true tree takes each
\* field from the inline order block where that defines it and from the named
\* template otherwise, and a quantity_pct of p becomes the quantity
\* (p / 100) x portfolio.equity
C22_TemplateResolution ==
    [][LET id == Head(runner.pending)
           strategy == runner.strategies[id]
           owned == runner.portfolios[strategy.user]
           Named(block) == IF block.template \in DOMAIN strategy.order_templates
                           THEN strategy.order_templates[block.template] ELSE NoTemplate
           Text(block, f) == IF block.order[f] # "" THEN block.order[f] ELSE Named(block)[f]
           Number(block, f) == IF ~IsNone(block.order[f]) THEN block.order[f]
                               ELSE Named(block)[f]
           Quantity(block, pf) ==
               IF IsNone(Number(block, "quantity_pct")) THEN Number(block, "quantity")
               ELSE Quantize(Mul(Div(Number(block, "quantity_pct"), Q(100)),
                                 portfolios[pf].equity), 6)
           Empty(block) == /\ \A f \in {"side", "order_type", "tif"} : Text(block, f) = ""
                           /\ \A f \in {"limit_price", "stop_price", "trail_amount",
                                        "quantity", "quantity_pct"} : IsNone(Number(block, f))
           Generated(block, s, k) ==
               \E j \in DOMAIN orders' \ DOMAIN orders :
                  /\ orders'[j].portfolio = owned[k]
                  /\ orders'[j].symbol = s
                  /\ orders'[j].side = Text(block, "side")
                  /\ orders'[j].order_type = Text(block, "order_type")
                  /\ orders'[j].tif = (IF Text(block, "tif") = "" THEN "day"
                                       ELSE Text(block, "tif"))
                  /\ orders'[j].limit_price = Number(block, "limit_price")
                  /\ orders'[j].stop_price = Number(block, "stop_price")
                  /\ orders'[j].quantity = Quantity(block, owned[k])
           Holding(block, s, k) ==
               /\ runner'.quotes[k][s].ok
               /\ EvaluateNode(block.rules, s, runner'.quotes[k][s], runner.at, Quiet) = "true"
               /\ ~Empty(block)
       IN  (runner.pending # <<>> /\ runner' # runner /\ runner'.quotes # <<>>) =>
              \A k \in DOMAIN owned, n \in DOMAIN strategy.symbols :
                 /\ Holding(strategy.entry, strategy.symbols[n], k)
                       => Generated(strategy.entry, strategy.symbols[n], k)
                 /\ Holding(strategy.exit, strategy.symbols[n], k)
                       => Generated(strategy.exit, strategy.symbols[n], k)
      ]_vars

\* C23 (malformed orders never enter the engine): every order that the engine
\* processes, created by the order API or by the strategy runner, has a
\* quantity or a notional, and has the limit_price, stop_price or trail value
\* that its type requires
C23_WellFormedOrders ==
    LET o == last.prior
    IN  last.id # 0 =>
           /\ ~IsNone(o.quantity) \/ ~IsNone(o.notional)
           /\ o.order_type \in {"limit", "limit_close", "limit_open", "stop_limit",
                                "trailing_limit", "hidden_limit", "iceberg"}
                 => ~IsNone(o.limit_price)
           /\ o.order_type \in {"stop", "stop_limit"} => ~IsNone(o.stop_price)
           /\ o.order_type \in {"trailing_amount", "trailing_percent", "trailing_limit"}
                 => ~IsNone(o.trail_amount) \/ ~IsNone(o.trail_percent)

\* C24 (cash conservation): every step changes the stored cash_balance of a
\* portfolio by exactly the fills it records for that portfolio: less quantity
\* x price + fees for a buy, plus quantity x price - fees for a sell, at the
\* slippage-adjusted price and with fees = quantity x per-share fee + flat
\* commission; so that the cash_balance is the initial cash with all fills
\* applied, also when several orders of a portfolio fill within one pass
C24_CashConservation ==
    [][LET fees(tr) == Add(Mul(tr.quantity, settings.fees_per_share),
                           settings.flat_commission)
           flow(tr) == IF tr.side = "buy"
                       THEN Sub(Zero, Add(Mul(tr.quantity, tr.price), fees(tr)))
                       ELSE Sub(Mul(tr.quantity, tr.price), fees(tr))
           RECURSIVE Flows(_, _)
           Flows(pid, k) ==
               IF k > Len(trades') THEN Zero
               ELSE IF trades'[k].portfolio = pid
               THEN Add(flow(trades'[k]), Flows(pid, k + 1))
               ELSE Flows(pid, k + 1)
       IN  \A pid \in DOMAIN portfolios :
              portfolios'[pid].cash_balance =
                 Add(portfolios[pid].cash_balance, Flows(pid, Len(trades) + 1))
      ]_vars

\* C25 (position/trade consistency): every step changes the quantity of the
\* position of a portfolio and symbol (0 where there is no position) by
\* exactly the quantities of the buy trades less those of the sell trades it
\* records for them; so that the quantity is the sum of the signed trade
\* quantities after any sequence of fills
C25_PositionTradeConsistency ==
    [][LET signed(tr) == IF tr.side = "buy" THEN tr.quantity ELSE Sub(Zero, tr.quantity)
           RECURSIVE Signed(_, _)
           Signed(key, k) ==
               IF k > Len(trades') THEN Zero
               ELSE IF <<trades'[k].portfolio, trades'[k].symbol>> = key
               THEN Add(signed(trades'[k]), Signed(key, k + 1))
               ELSE Signed(key, k + 1)
       IN  \A key \in DOMAIN positions :
              positions'[key].quantity =
                 Add(positions[key].quantity, Signed(key, Len(trades) + 1))
      ]_vars

\* C26 (no overdraft): no fill leaves the cash_balance of its portfolio below
\* zero, and no sell fill is applied for a symbol of which the portfolio holds
\* no position or leaves the position's quantity below zero
C26_NoOverdraft ==
    [][\A k \in DOMAIN trades' \ DOMAIN trades :
          /\ Ge(portfolios'[trades'[k].portfolio].cash_balance, Zero)
          /\ trades'[k].side = "sell" =>
                /\ positions[<<trades'[k].portfolio, trades'[k].symbol>>].exists
                /\ Ge(positions'[<<trades'[k].portfolio, trades'[k].symbol>>].quantity, Zero)
      ]_vars

\* C27 (reduce semantics): a sell fill of quantity q at the slippage-adjusted
\* price p against an existing position leaves its avg_price unchanged,
\* records on the trade the realized P&L (p - avg_price before the fill) x the
\* part of q that reduces the position, and adds the same amount to the
\* portfolio's realized_pnl; a buy fill records a realized P&L of 0
C27_ReduceSemantics ==
    [][\A k \in DOMAIN trades' \ DOMAIN trades :
          LET tr == trades'[k]
              key == <<tr.portfolio, tr.symbol>>
              held == Max(positions[key].quantity, Zero)
              realized == Mul(Sub(tr.price, positions[key].avg_price),
                              Min(tr.quantity, held))
          IN  /\ tr.side = "buy" => tr.realized_pnl = Zero
              /\ (tr.side = "sell" /\ positions[key].exists) =>
                    /\ positions'[key].avg_price = positions[key].avg_price
                    /\ tr.realized_pnl = realized
                    /\ portfolios'[tr.portfolio].realized_pnl =
                          Add(portfolios[tr.portfolio].realized_pnl, realized)
      ]_vars

\* C28 (order fill bookkeeping), as stated: after a fill is applied to an order whose
\* filled_quantity was the sum of its trades before, its filled_quantity is
\* the sum of the quantities of all its trades, its average_fill_price is the
\* quantity-weighted average of their prices, and its status is filled when
\* the filled_quantity has reached the order's quantity and part_filled
\* otherwise
C28_FillBookkeeping ==
    [][LET id == last'.id
           RECURSIVE Sum(_, _, _)
           Sum(rows, k, weight) ==
               IF k > Len(rows) THEN Zero
               ELSE IF rows[k].order # id THEN Sum(rows, k + 1, weight)
               ELSE CHOOSE total \in
                       { Add(IF weight = "cost" THEN Mul(rows[k].quantity, rows[k].price)
                             ELSE rows[k].quantity, rest) :
                           rest \in {Sum(rows, k + 1, weight)} } : TRUE
       IN  (/\ last' # last
            /\ last'.outcome = "fill"
            /\ orders[id].filled_quantity = Sum(trades, 1, "quantity")) =>
              \A quantity \in {Sum(trades', 1, "quantity")}, cost \in {Sum(trades', 1, "cost")} :
                 Gt(quantity, Zero) =>
                    /\ orders'[id].filled_quantity = quantity
                    /\ orders'[id].average_fill_price = Div(cost, quantity)
                    /\ orders'[id].status =
                          (IF Ge(orders'[id].filled_quantity, orders'[id].quantity)
                           THEN "filled" ELSE "part_filled")
      ]_vars

\* C28, amended: after a fill is applied to an order whose filled_quantity was
\* the sum of its trades before (up to the rounding of their six-place
\* columns, 0.000001 for each trade), its filled_quantity is the sum of the
\* quantities of all its trades up to that rounding, and larger than before;
\* its average_fill_price, rounded to the four
\* places of its column at every fill, is within 0.0001 for each of its trades
\* of the quantity-weighted average of their prices; and its status is filled
\* when the filled_quantity has reached the order's quantity and part_filled
\* otherwise, unless it is a fill-or-kill order left with a remainder, which is
\* canceled right after the fill
C28_FillBookkeepingRounded ==
    [][LET id == last'.id
           RECURSIVE Sum(_, _, _)
           Sum(rows, k, weight) ==
               IF k > Len(rows) THEN Zero
               ELSE IF rows[k].order # id THEN Sum(rows, k + 1, weight)
               ELSE CHOOSE total \in
                       { Add(IF weight = "cost" THEN Mul(rows[k].quantity, rows[k].price)
                             ELSE IF weight = "quantity" THEN rows[k].quantity
                             ELSE Norm(1, 10000), rest) :
                           rest \in {Sum(rows, k + 1, weight)} } : TRUE
       IN  (/\ last' # last
            /\ last'.outcome = "fill"
            /\ \A before \in {Sum(trades, 1, "quantity")}, slack \in {Sum(trades, 1, "each")} :
                  /\ Le(Sub(orders[id].filled_quantity, before), Div(slack, Q(100)))
                  /\ Ge(Sub(orders[id].filled_quantity, before), Sub(Zero, Div(slack, Q(100))))) =>
              \A quantity \in {Sum(trades', 1, "quantity")}, cost \in {Sum(trades', 1, "cost")},
                 each \in {Sum(trades', 1, "each")} :
                 Gt(quantity, Zero) =>
                    /\ Le(Sub(orders'[id].filled_quantity, quantity), Div(each, Q(100)))
                    /\ Ge(Sub(orders'[id].filled_quantity, quantity), Sub(Zero, Div(each, Q(100))))
                    /\ Gt(orders'[id].filled_quantity, orders[id].filled_quantity)
                    /\ Le(Sub(orders'[id].average_fill_price, Div(cost, quantity)), each)
                    /\ Ge(Sub(orders'[id].average_fill_price, Div(cost, quantity)), Sub(Zero, each))
                    /\ IF orders'[id].tif = "fok" /\ Gt(last'.result.remaining, Zero)
                       THEN orders'[id].status = "canceled"
                       ELSE orders'[id].status =
                               (IF Ge(orders'[id].filled_quantity, orders'[id].quantity)
                                THEN "filled" ELSE "part_filled")
      ]_vars

\* an order filled at two prices, whose average lies strictly between them
C28_Witness ==
    \E j, k \in DOMAIN trades :
       /\ trades[j].order = trades[k].order
       /\ Lt(trades[j].price, trades[k].price)
       /\ Lt(trades[j].price, orders[trades[j].order].average_fill_price)
       /\ Lt(orders[trades[j].order].average_fill_price, trades[k].price)
       /\ last.id = trades[j].order
       /\ last.outcome = "fill"

\* C29: notional resolution uses the fill price.  When the engine call that fills
\* an order found it with no quantity and a notional N, the quantity it stored on
\* the order times the price the handler reported is N, up to the sixth decimal
\* place the quantity column keeps
C29_NotionalAtFillPrice ==
    [][LET id == last'.id
           gap == Sub(Mul(orders'[id].quantity, last'.result.price), last'.prior.notional)
           unit == Mul(last'.result.price, Norm(1, 1000000))
       IN  (/\ last' # last
            /\ last'.outcome = "fill"
            /\ IsNone(last'.prior.quantity)
            /\ Truthy(last'.prior.notional)) =>
              /\ Le(gap, unit)
              /\ Ge(gap, Sub(Zero, unit))
      ]_vars

\* C30: trailing reference.  For a trailing order the handler evaluates, the
\* reference is the value kept in the notes (at first the stop price, or the quote
\* price without one); the order fills exactly when the quote price is the trail
\* away from it on the adverse side, and an evaluation that does not fill stores
\* the reference moved to the quote price when that is a new high (sell) or a new
\* low (buy)
C30_TrailingReference ==
    [][LET id == last'.id
           o == last'.prior
           p == last'.quote.price
           trail == IF o.order_type = "trailing_percent"
                    THEN Div(Mul(p, o.trail_percent), Q(100)) ELSE o.trail_amount
           reference == IF Truthy(o.notes.trail_ref) THEN o.notes.trail_ref
                        ELSE IF Truthy(o.stop_price) THEN o.stop_price ELSE p
           adverse == IF o.side = "sell" THEN Le(p, Sub(reference, trail))
                      ELSE Ge(p, Add(reference, trail))
       IN  (/\ last' # last
            /\ o.order_type \in {"trailing_amount", "trailing_percent", "trailing_limit"}
            /\ last'.outcome \in {"fill", "nofill"}) =>
              /\ (last'.outcome = "fill") <=> adverse
              /\ last'.outcome = "nofill" =>
                    orders'[id].notes.trail_ref =
                       (IF o.side = "sell" THEN Max(reference, p) ELSE Min(reference, p))
      ]_vars

C32_AlgoSliceCounter ==
    [][LET id == last'.id
           o == last'.prior
       IN  (/\ last' # last
            /\ o.order_type \in {"algo_twap", "algo_vwap", "algo_pov"}
            /\ last'.outcome \in {"fill", "nofill"}
            /\ (o.algo_next_run_at = NoTime \/ now >= o.algo_next_run_at)) =>
              /\ orders'[id].algo_slice_index = o.algo_slice_index + 1
              /\ orders'[id].algo_next_run_at > now
      ]_vars

\* the algo order of the book is filled in full
AlgoCompleted ==
    orders[1].status = "filled" /\ orders[1].filled_quantity = orders[1].quantity

\* the latest call came before the order's algo_next_run_at
AlgoNotDue ==
    last.id # 0 /\ last.prior.algo_next_run_at # NoTime /\ now < last.prior.algo_next_run_at

\* the latest call on an algo_pov order got a quote without a positive volume
AlgoNoVolume ==
    /\ last.id # 0
    /\ last.prior.order_type = "algo_pov"
    /\ (~Truthy(last.quote.volume) \/ ~Gt(last.quote.volume, Zero))

\* an algo_pov order whose participation rate is not positive
AlgoZeroRate ==
    /\ orders[1].order_type = "algo_pov"
    /\ ~Gt(Participation(orders[1].algo_params), Zero)

\* C33 as stated: algo completion.  An algo_twap or algo_pov order with a positive
\* quantity that each pass finds due, with a quote (of positive volume for
\* algo_pov), is in the end filled for its whole quantity; and each of the S due
\* passes of an algo_twap order without reserve_quantity fills quantity / S, the
\* last of them leaving the order filled
C33_AlgoCompletion ==
    /\ <>(AlgoCompleted \/ AlgoNotDue \/ AlgoNoVolume)
    /\ [][LET o == last'.prior
              S == MaxInt(1, Trunc(o.algo_params.slices))
              k == o.algo_slice_index
          IN  (/\ last' # last
               /\ o.order_type = "algo_twap"
               /\ IsNone(o.reserve_quantity)
               /\ (o.algo_next_run_at = NoTime \/ now >= o.algo_next_run_at)
               /\ o.filled_quantity = Mul(Q(k), Div(o.quantity, Q(S)))
               /\ k < S) =>
                 /\ last'.outcome = "fill"
                 /\ Len(trades') = Len(trades) + 1
                 /\ trades'[Len(trades')].quantity = Div(o.quantity, Q(S))
                 /\ orders'[1].algo_slice_index = k + 1
                 /\ orders'[1].filled_quantity = Mul(Q(k + 1), Div(o.quantity, Q(S)))
                 /\ orders'[1].status = (IF k + 1 = S THEN "filled" ELSE "part_filled")
         ]_vars

\* C33: the same for an algo_pov order whose participation rate is positive, the
\* shares of an algo_twap order being quantity / S up to the sixth decimal place
\* of the quantity columns at every fill
C33_AlgoCompletionRounded ==
    /\ <>(AlgoCompleted \/ AlgoNotDue \/ AlgoNoVolume \/ AlgoZeroRate)
    /\ [][LET o == last'.prior
              S == MaxInt(1, Trunc(o.algo_params.slices))
              k == o.algo_slice_index
              share == Div(o.quantity, Q(S))
              Near(a, b, units) ==
                  /\ Le(Sub(a, b), Norm(units, 1000000))
                  /\ Ge(Sub(a, b), Norm(0 - units, 1000000))
          IN  (/\ last' # last
               /\ o.order_type = "algo_twap"
               /\ IsNone(o.reserve_quantity)
               /\ (o.algo_next_run_at = NoTime \/ now >= o.algo_next_run_at)
               /\ Near(o.filled_quantity, Mul(Q(k), share), k)
               /\ k < S) =>
                 /\ last'.outcome = "fill"
                 /\ Len(trades') = Len(trades) + 1
                 /\ Near(trades'[Len(trades')].quantity, share, k + 1)
                 /\ orders'[1].algo_slice_index = k + 1
                 /\ Near(orders'[1].filled_quantity, Mul(Q(k + 1), share), k + 1)
                 /\ orders'[1].status = (IF k + 1 = S THEN "filled" ELSE "part_filled")
                 /\ k + 1 = S => orders'[1].filled_quantity = o.quantity
         ]_vars

C33_Witness ==
    /\ AlgoCompleted
    /\ orders[1].order_type = "algo_twap"
    /\ IsNone(orders[1].reserve_quantity)
    /\ orders[1].algo_params.slices = Q(3)
    /\ orders[1].algo_slice_index = 3
    /\ Len(trades) = 3
    /\ runs >= 3

\* C34: group condition evaluation.  When the engine evaluates the condition of an
\* order that is an and_group or or_group, one failing child makes the evaluation
\* fail whatever the children before it gave (none is skipped), the result is
\* else the conjunction or the disjunction of the children's results, and the
\* order object leaves the call with the condition it came with
C34_GroupEvaluation ==
    [][LET o == last'.prior
           c == o.condition
           result == Satisfied(o, last'.quote, now, last'.feed)
           child(k) == Holds(c.conditions[k], o.symbol, last'.quote, now, last'.feed)
       IN  (/\ last' # last
            /\ c.type \in {"and_group", "or_group"}
            /\ last'.outcome \notin {"closed", "expired", "hours", "noquote"}) =>
              /\ (\E k \in DOMAIN c.conditions : child(k) = "raise") <=> result = "raise"
              /\ result # "raise" =>
                    (result = "true") <=>
                       IF c.type = "and_group"
                       THEN \A k \in DOMAIN c.conditions : child(k) = "true"
                       ELSE \E k \in DOMAIN c.conditions : child(k) = "true"
              /\ ConditionOnExit(c, o.symbol, last'.quote, now, last'.feed) = c
      ]_vars

\* C35: indicator cache scope.  The history cache of the engine's indicator
\* service is empty when a pass starts, so no pass reads history an earlier pass
\* fetched; and within a pass the history of a symbol, once fetched, is not
\* fetched again
C35_CacheScope ==
    [][/\ runs' # runs => cache' = NoCache
       /\ \A s \in DOMAIN cache :
             (cache[s].held /\ runs' = runs) => cache'[s] = cache[s]
      ]_vars

\* C36: price gates.  A limit, hidden_limit or iceberg order fills only in a call
\* whose quote price is within its limit, a stop order only when the quote price
\* has reached its stop, a stop_limit order only when both hold; the handler prices
\* the fill at the limit price, and at the quote price for a stop order; and an
\* order without any fill that the gate stops is working afterwards (an ioc or fok
\* order, which the engine cancels, aside)
C36_PriceGates ==
    [][LET id == last'.id
           o == last'.prior
           p == last'.quote.price
           limit_ok == IF o.side = "buy" THEN Le(p, o.limit_price) ELSE Ge(p, o.limit_price)
           stop_ok == IF o.side = "buy" THEN Ge(p, o.stop_price) ELSE Le(p, o.stop_price)
           limits == {"limit", "hidden_limit", "iceberg"}
           gate == CASE o.order_type \in limits -> limit_ok
                     [] o.order_type = "stop" -> stop_ok
                     [] OTHER -> stop_ok /\ limit_ok
       IN  (/\ last' # last
            /\ o.order_type \in limits \cup {"stop", "stop_limit"}
            /\ o.order_type # "stop" => Truthy(o.limit_price)
            /\ o.order_type \notin limits => Truthy(o.stop_price)
            /\ last'.outcome \in {"fill", "nofill"}
            /\ last'.quote.ok
            /\ o.tif \notin {"ioc", "fok"}) =>
              /\ (last'.result.some /\ last'.result.filled) =>
                    /\ gate
                    /\ last'.result.price = (IF o.order_type = "stop" THEN p ELSE o.limit_price)
              /\ (~gate /\ o.filled_quantity = Zero) => orders'[id].status = "working"
      ]_vars

\* C37: children wait for their parent.  An order that has a parent is filled only
\* when its parent has received a fill before
C37_ChildrenWait ==
    [][LET o == last'.prior
       IN  (/\ last' # last
            /\ last'.outcome = "fill"
            /\ o.parent # 0) =>
              Gt(orders[o.parent].filled_quantity, Zero)
      ]_vars

\* C38: status agrees with fill progress.  No order with status new or working has
\* a filled quantity, and an engine call on a part_filled order leaves it
\* part_filled, filled, canceled or expired, never working
C38_StatusAgreesWithFills ==
    [][LET id == last'.id
           o == last'.prior
       IN  /\ \A i \in DOMAIN orders' :
                orders'[i].status \in {"new", "working"} => orders'[i].filled_quantity = Zero
           /\ (last' # last /\ o.status = "part_filled") =>
                 orders'[id].status \in {"part_filled", "filled", "canceled", "expired"}
      ]_vars

\* C39: no empty trades.  Every trade an engine call creates has a positive
\* quantity, an order becomes filled only with a positive filled quantity, and a
\* call on an order with neither quantity nor notional, or with nothing left to
\* fill, gets no fill result from its handler
C39_NoEmptyTrades ==
    [][LET id == last'.id
           o == last'.prior
           none == /\ IsNone(o.quantity) /\ ~Truthy(o.notional)
           spent == /\ ~IsNone(o.quantity) /\ Le(Sub(o.quantity, o.filled_quantity), Zero)
       IN  /\ \A k \in DOMAIN trades' \ DOMAIN trades : Gt(trades'[k].quantity, Zero)
           /\ \A i \in DOMAIN orders' :
                 (orders'[i].status = "filled" /\ (i \notin DOMAIN orders \/ orders[i].status # "filled"))
                    => Gt(orders'[i].filled_quantity, Zero)
           /\ (last' # last /\ (none \/ spent)) => ~(last'.result.some /\ last'.result.filled)
      ]_vars

\* C40: among the children of one bracket, otoco or oco parent (or the tp/sl
\* children of any parent) at most one child ever has a positive fill: when a
\* child receives a fill, no sibling in that scope has a trade of positive
\* quantity.
C40_ExclusiveExit ==
    [][LET o == last'.prior
           scoped(i) == \/ orders[o.parent].order_type \in {"bracket", "otoco", "oco"}
                        \/ (o.child_role \in {"tp", "sl"} /\ orders[i].child_role \in {"tp", "sl"})
       IN  (/\ last' # last
            /\ last'.outcome = "fill"
            /\ Len(trades') > Len(trades)
            /\ o.parent # 0) =>
              \A i \in DOMAIN orders :
                 (i # o.id /\ orders[i].parent = o.parent /\ scoped(i)) =>
                    ~\E k \in DOMAIN trades :
                        trades[k].order = i /\ Gt(trades[k].quantity, Zero)
      ]_vars

=============================================================================
